---- MODULE Spec2Model ----
(***************************************************************************)
(* A state-machine model of llvm/lib/Analysis/IVDescriptors.cpp:           *)
(* the reduction matcher (RecurrenceDescriptor::AddReductionVar), the      *)
(* reduction kind prober (isReductionPHI) and the first-order-recurrence   *)
(* sinker (isFirstOrderRecurrence), run over small SSA dataflow graphs.    *)
(***************************************************************************)
EXTENDS Integers, Sequences, FiniteSets, TLC

VARIABLES
    g,        \* the dataflow graph and the loop view (read-only input)
    Phi,      \* the header merge node handed to the entry point
    Kind0,    \* the candidate RecurKind handed to AddReductionVar
    arv,      \* the locals of the running AddReductionVar call
    RedDes,   \* the caller's output RecurrenceDescriptor
    oracle,   \* the answers the bit-demand / sign-bit oracles gave
    kindIdx,  \* isReductionPHI: index of the kind being tried (0 = direct call)
    phiRet,   \* isReductionPHI: "none" while running, then "true" / "false"
    fr,       \* the locals of the running isFirstOrderRecurrence call
    SinkAfter, \* the caller's SinkAfter map (a sequence of <<key, value>>)
    called,   \* the merge nodes isFirstOrderRecurrence has returned for
    ind,      \* the locals of the running isInductionPHI call
    D,        \* the caller's output InductionDescriptor
    PSE,      \* the answers of the affine-recurrence engine, and Assume
    roc,      \* the locals of the running getReductionOpChain call
    idn,      \* a getRecurrenceIdentity call: arguments and returned constant
    first     \* what the first of two identical calls returned

redVars == <<Kind0, arv, RedDes, oracle, kindIdx, phiRet>>
forVars == <<fr, SinkAfter, called>>
indVars == <<ind, D, PSE>>
utilVars == <<roc, idn, first>>
vars == <<g, Phi, redVars, forVars, indVars, utilVars>>

---------------------------------------------------------------------------
(* Bounds of the model *)

\* bit width of an integer merge node
PhiBits == 8
\* longest chain of in-loop operations generated after the merge node
MaxChain == 2
\* number of consumers generated for a first-order recurrence
MaxUsers == 3

---------------------------------------------------------------------------
(* Values.  Instructions are the indices of g.ins; every other value is a  *)
(* number outside that range.                                              *)

Null == 0
Arg(k) == 100 + k
ConstInt(m) == 200 + m

StartV == Arg(0)   \* the value that enters from the preheader
ArgX == Arg(1)     \* a loop-invariant value of the merge node's type

IsConstInt(v) == v >= 200
ConstValue(v) == v - 200

RECURSIVE Pow2(_)
Pow2(n) == IF n <= 0 THEN 1 ELSE 2 * Pow2(n - 1)

IntTy(w) == [k |-> "int", w |-> w]
FloatTy == [k |-> "fp", w |-> 32]

LoopBlocks == {"header", "body", "latch"}

AllFMF == {"reassoc", "nnan", "ninf", "nsz", "arcp", "contract", "afn"}

MkInst(op, opnd, blk, ty) ==
    [op |-> op, opnd |-> opnd, blk |-> blk, ty |-> ty, fmf |-> {},
     pred |-> "none", inblk |-> <<>>, eff |-> "none"]

MkFP(op, opnd, blk, fmf) ==
    [MkInst(op, opnd, blk, FloatTy) EXCEPT !.fmf = fmf]

MkCmp(op, pred, opnd, blk, fmf) ==
    [MkInst(op, opnd, blk, IntTy(1)) EXCEPT !.pred = pred, !.fmf = fmf]

MkPhi(opnd, inblk, blk, ty) ==
    [MkInst("PHI", opnd, blk, ty) EXCEPT !.inblk = inblk]

\* an out-of-loop user of v (an LCSSA merge node in the exit block)
MkExit(v, ty) == MkPhi(<<v>>, <<"header">>, "exit", ty)

---------------------------------------------------------------------------
(* The graph view: operands, users, opcodes, block membership. *)

NumInsts(G) == Len(G.ins)
IsInst(G, v) == v \in 1..Len(G.ins)
Op(G, v) == IF IsInst(G, v) THEN G.ins[v].op ELSE "none"
Operands(G, v) == G.ins[v].opnd
Operand(G, v, i) == G.ins[v].opnd[i]
Parent(G, v) == G.ins[v].blk
TypeOf(G, v) == IF IsInst(G, v) THEN G.ins[v].ty ELSE G.ins[1].ty
LoopContains(G, v) == IsInst(G, v) /\ G.ins[v].blk \in LoopBlocks

SeqContains(s, v) == \E i \in 1..Len(s) : s[i] = v
RECURSIVE CountIn(_, _)
CountIn(s, v) ==
    IF s = <<>> THEN 0
    ELSE (IF Head(s) = v THEN 1 ELSE 0) + CountIn(Tail(s), v)

Repeat(x, k) == [i \in 1..k |-> x]

\* The use list of v: one entry per use, so a user that names v twice is
\* listed twice.  The order of a use list is not fixed by the IR; G.rev
\* chooses between the two orders the model generates.
RECURSIVE UsesUpTo(_, _, _)
UsesUpTo(G, v, i) ==
    IF i = 0 THEN <<>>
    ELSE LET here == Repeat(i, CountIn(G.ins[i].opnd, v))
         IN  IF G.rev THEN here \o UsesUpTo(G, v, i - 1)
             ELSE UsesUpTo(G, v, i - 1) \o here

Users(G, v) == UsesUpTo(G, v, Len(G.ins))
use_empty(G, v) == Users(G, v) = <<>>
hasOneUse(G, v) == Len(Users(G, v)) = 1

isaPHI(G, v) == Op(G, v) = "PHI"
isaSelect(G, v) == Op(G, v) = "Select"
isaICmp(G, v) == Op(G, v) = "ICmp"
isaFCmp(G, v) == Op(G, v) = "FCmp"
isaCmp(G, v) == isaICmp(G, v) \/ isaFCmp(G, v)
isaCast(G, v) == Op(G, v) \in {"Trunc", "ZExt", "SExt"}

BinaryOps == {"Add", "Sub", "Mul", "And", "Or", "Xor", "Shl",
              "FAdd", "FSub", "FMul", "FDiv"}
isBinaryOp(G, v) == Op(G, v) \in BinaryOps
isCommutative(G, v) ==
    Op(G, v) \in {"Add", "FAdd", "Mul", "FMul", "And", "Or", "Xor"}
isFPMathOperator(G, v) ==
    \/ Op(G, v) \in {"FAdd", "FSub", "FMul", "FDiv", "FCmp"}
    \/ Op(G, v) \in {"PHI", "Select"} /\ TypeOf(G, v).k = "fp"
getFastMathFlags(G, v) == G.ins[v].fmf
hasAllowReassoc(G, v) == "reassoc" \in G.ins[v].fmf
isFast(G, v) == G.ins[v].fmf = AllFMF

\* Phi->getIncomingValueForBlock(B)
getIncomingValueForBlock(G, p, B) ==
    LET idx == {i \in 1..Len(G.ins[p].inblk) : G.ins[p].inblk[i] = B}
    IN  IF idx = {} THEN Null
        ELSE G.ins[p].opnd[CHOOSE i \in idx : \A j \in idx : i <= j]

\* the outcome of a failed assertion
Abort == -1
\* what a read in front of an operand list may yield besides a null pointer
Junk == Arg(9)

\* Phi->getIncomingValueForBlock(BB).  When BB is no incoming block of Phi
\* (a null BB included) getBasicBlockIndex answers -1: the assertion on the
\* index fails, and a build without assertions reads in front of the operand
\* list.  G.build tells which of these outcomes the build produces.
IncomingOrUB(G, P, B) ==
    IF SeqContains(G.ins[P].inblk, B) THEN getIncomingValueForBlock(G, P, B)
    ELSE IF G.build = "assert" THEN Abort
    ELSE IF G.build = "null" THEN Null
    ELSE Junk

---------------------------------------------------------------------------
(* RecurKind and its classes *)

None == "None"
IntKinds == {"Add", "Mul", "Or", "And", "Xor", "SMax", "SMin", "UMax", "UMin"}
FPKinds == {"FAdd", "FMul", "FMax", "FMin"}
RecurKinds == IntKinds \cup FPKinds

isIntegerRecurrenceKind(K) == K \in IntKinds
isFloatingPointRecurrenceKind(K) ==
    K /= None /\ ~isIntegerRecurrenceKind(K)
isArithmeticRecurrenceKind(K) == K \in {"Add", "Mul", "FAdd", "FMul"}
isIntMinMaxRecurrenceKind(K) == K \in {"UMin", "UMax", "SMin", "SMax"}
isFPMinMaxRecurrenceKind(K) == K \in {"FMin", "FMax"}
isMinMaxRecurrenceKind(K) ==
    isIntMinMaxRecurrenceKind(K) \/ isFPMinMaxRecurrenceKind(K)

---------------------------------------------------------------------------
(* InstDesc: the transient match state of the pattern prober *)

\* InstDesc(bool IsRecur, Instruction *I, Instruction *ExactFP = nullptr)
InstDescB(IsRecur, I, ExactFP) ==
    [IsRecurrence |-> IsRecur, PatternLastInst |-> I, RecKind |-> None,
     ExactFPMathInst |-> ExactFP]

\* InstDesc(Instruction *I, RecurKind K, Instruction *ExactFP = nullptr)
InstDescK(I, K, ExactFP) ==
    [IsRecurrence |-> TRUE, PatternLastInst |-> I, RecKind |-> K,
     ExactFPMathInst |-> ExactFP]

---------------------------------------------------------------------------
(* Compare predicates and the select(cmp) min/max matchers of PatternMatch *)

getInversePredicate(p) ==
    CASE p = "ICMP_EQ" -> "ICMP_NE"   [] p = "ICMP_NE" -> "ICMP_EQ"
      [] p = "ICMP_UGT" -> "ICMP_ULE" [] p = "ICMP_ULE" -> "ICMP_UGT"
      [] p = "ICMP_UGE" -> "ICMP_ULT" [] p = "ICMP_ULT" -> "ICMP_UGE"
      [] p = "ICMP_SGT" -> "ICMP_SLE" [] p = "ICMP_SLE" -> "ICMP_SGT"
      [] p = "ICMP_SGE" -> "ICMP_SLT" [] p = "ICMP_SLT" -> "ICMP_SGE"
      [] p = "FCMP_OEQ" -> "FCMP_UNE" [] p = "FCMP_UNE" -> "FCMP_OEQ"
      [] p = "FCMP_OGT" -> "FCMP_ULE" [] p = "FCMP_ULE" -> "FCMP_OGT"
      [] p = "FCMP_OGE" -> "FCMP_ULT" [] p = "FCMP_ULT" -> "FCMP_OGE"
      [] p = "FCMP_OLT" -> "FCMP_UGE" [] p = "FCMP_UGE" -> "FCMP_OLT"
      [] p = "FCMP_OLE" -> "FCMP_UGT" [] p = "FCMP_UGT" -> "FCMP_OLE"
      [] p = "FCMP_ONE" -> "FCMP_UEQ" [] p = "FCMP_UEQ" -> "FCMP_ONE"
      [] OTHER -> p

\* the predicates each Pred_t::match of PatternMatch accepts
FlavorPreds(flavor) ==
    CASE flavor = "UMin" -> {"ICMP_ULT", "ICMP_ULE"}
      [] flavor = "UMax" -> {"ICMP_UGT", "ICMP_UGE"}
      [] flavor = "SMax" -> {"ICMP_SGT", "ICMP_SGE"}
      [] flavor = "SMin" -> {"ICMP_SLT", "ICMP_SLE"}
      [] flavor = "OrdFMin" -> {"FCMP_OLT", "FCMP_OLE"}
      [] flavor = "OrdFMax" -> {"FCMP_OGT", "FCMP_OGE"}
      [] flavor = "UnordFMin" -> {"FCMP_ULT", "FCMP_ULE"}
      [] flavor = "UnordFMax" -> {"FCMP_UGT", "FCMP_UGE"}

FlavorCmpOp(flavor) ==
    IF flavor \in {"UMin", "UMax", "SMax", "SMin"} THEN "ICmp" ELSE "FCmp"

\* MaxMin_match<CmpInst_t, ..., Pred_t>::match(V) for a select V:
\* "(x pred y) ? x : y" or "(x pred y) ? y : x"
MaxMin_match(G, V, flavor) ==
    /\ isaSelect(G, V)
    /\ Op(G, Operand(G, V, 1)) = FlavorCmpOp(flavor)
    /\ LET Cmp == Operand(G, V, 1)
           TrueVal == Operand(G, V, 2)
           FalseVal == Operand(G, V, 3)
           LHS == Operand(G, Cmp, 1)
           RHS == Operand(G, Cmp, 2)
           Pred == IF LHS = TrueVal THEN G.ins[Cmp].pred
                   ELSE getInversePredicate(G.ins[Cmp].pred)
       IN  /\ ~((TrueVal /= LHS \/ FalseVal /= RHS) /\
                (TrueVal /= RHS \/ FalseVal /= LHS))
           /\ Pred \in FlavorPreds(flavor)

\* m_OneUse(m_Cmp(Pred, m_Value(), m_Value()))
m_OneUseCmp(G, v) == isaCmp(G, v) /\ hasOneUse(G, v)

---------------------------------------------------------------------------
(* The reduction pattern classification *)

\* the matcher with the labels of the signed flavours exchanged
isMinMaxSelectCmpPatternSwapped(G, I, Prev) ==
    IF m_OneUseCmp(G, I) /\ isaSelect(G, Users(G, I)[1])
    THEN InstDescK(Users(G, I)[1], Prev.RecKind, Null)
    ELSE IF ~(isaSelect(G, I) /\ m_OneUseCmp(G, Operand(G, I, 1)))
    THEN InstDescB(FALSE, I, Null)
    ELSE IF MaxMin_match(G, I, "UMin") THEN InstDescK(I, "UMin", Null)
    ELSE IF MaxMin_match(G, I, "UMax") THEN InstDescK(I, "UMax", Null)
    ELSE IF MaxMin_match(G, I, "SMax") THEN InstDescK(I, "SMin", Null)
    ELSE IF MaxMin_match(G, I, "SMin") THEN InstDescK(I, "SMax", Null)
    ELSE IF MaxMin_match(G, I, "OrdFMin") THEN InstDescK(I, "FMin", Null)
    ELSE IF MaxMin_match(G, I, "OrdFMax") THEN InstDescK(I, "FMax", Null)
    ELSE IF MaxMin_match(G, I, "UnordFMin") THEN InstDescK(I, "FMin", Null)
    ELSE IF MaxMin_match(G, I, "UnordFMax") THEN InstDescK(I, "FMax", Null)
    ELSE InstDescB(FALSE, I, Null)

isMinMaxSelectCmpPattern(G, I, Prev) ==
    IF m_OneUseCmp(G, I) /\ isaSelect(G, Users(G, I)[1])
    THEN InstDescK(Users(G, I)[1], Prev.RecKind, Null)
    ELSE IF ~(isaSelect(G, I) /\ m_OneUseCmp(G, Operand(G, I, 1)))
    THEN InstDescB(FALSE, I, Null)
    ELSE IF MaxMin_match(G, I, "UMin") THEN InstDescK(I, "UMin", Null)
    ELSE IF MaxMin_match(G, I, "UMax") THEN InstDescK(I, "UMax", Null)
    ELSE IF MaxMin_match(G, I, "SMax") THEN InstDescK(I, "SMax", Null)
    ELSE IF MaxMin_match(G, I, "SMin") THEN InstDescK(I, "SMin", Null)
    ELSE IF MaxMin_match(G, I, "OrdFMin") THEN InstDescK(I, "FMin", Null)
    ELSE IF MaxMin_match(G, I, "OrdFMax") THEN InstDescK(I, "FMax", Null)
    ELSE IF MaxMin_match(G, I, "UnordFMin") THEN InstDescK(I, "FMin", Null)
    ELSE IF MaxMin_match(G, I, "UnordFMax") THEN InstDescK(I, "FMax", Null)
    ELSE InstDescB(FALSE, I, Null)

isConditionalRdxPattern(G, Kind, I) ==
    IF ~isaSelect(G, I) THEN InstDescB(FALSE, I, Null)
    ELSE
    LET CI == Operand(G, I, 1)
        TrueVal == Operand(G, I, 2)
        FalseVal == Operand(G, I, 3)
        I1 == IF isaPHI(G, TrueVal) THEN FalseVal ELSE TrueVal
    IN  IF ~isaCmp(G, CI) \/ ~hasOneUse(G, CI)
        THEN InstDescB(FALSE, I, Null)
        ELSE IF (isaPHI(G, TrueVal) /\ isaPHI(G, FalseVal)) \/
                (~isaPHI(G, TrueVal) /\ ~isaPHI(G, FalseVal))
        THEN InstDescB(FALSE, I, Null)
        ELSE IF ~IsInst(G, I1) \/ ~isBinaryOp(G, I1)
        THEN InstDescB(FALSE, I, Null)
        ELSE IF Op(G, I1) \in {"FAdd", "FSub"} /\ isFast(G, I1)
        THEN InstDescB(Kind = "FAdd", I, Null)
        ELSE IF Op(G, I1) = "FMul" /\ isFast(G, I1)
        THEN InstDescB(Kind = "FMul", I, Null)
        ELSE InstDescB(FALSE, I, Null)

\* variant that counts the flags of the instruction with those of the
\* function
MinMaxArmOwnFlags(G, I, Kind, Prev, FuncFMF) ==
    IF isIntMinMaxRecurrenceKind(Kind) \/
       ({"nnan", "nsz"} \subseteq FuncFMF \cup getFastMathFlags(G, I) /\
        isFPMinMaxRecurrenceKind(Kind))
    THEN isMinMaxSelectCmpPattern(G, I, Prev)
    ELSE InstDescB(FALSE, I, Null)

\* the fcmp / icmp / select (min/max) arm of isRecurrenceInstr
MinMaxArm(G, I, Kind, Prev, FuncFMF) ==
    IF isIntMinMaxRecurrenceKind(Kind) \/
       ("nnan" \in FuncFMF /\ "nsz" \in FuncFMF /\
        isFPMinMaxRecurrenceKind(Kind))
    THEN isMinMaxSelectCmpPattern(G, I, Prev)
    ELSE InstDescB(FALSE, I, Null)

\* the classification with an or accepted for the kind Xor only
isRecurrenceInstrOrAsXor(G, I, Kind, Prev, FuncFMF) ==
    LET op == Op(G, I)
        exact == IF hasAllowReassoc(G, I) THEN Null ELSE I
    IN  CASE op = "PHI" -> InstDescK(I, Prev.RecKind, Prev.ExactFPMathInst)
          [] op \in {"Sub", "Add"} -> InstDescB(Kind = "Add", I, Null)
          [] op = "Mul" -> InstDescB(Kind = "Mul", I, Null)
          [] op = "And" -> InstDescB(Kind = "And", I, Null)
          [] op = "Or" -> InstDescB(Kind = "Xor", I, Null)
          [] op = "Xor" -> InstDescB(Kind = "Xor", I, Null)
          [] op \in {"FDiv", "FMul"} -> InstDescB(Kind = "FMul", I, exact)
          [] op \in {"FSub", "FAdd"} -> InstDescB(Kind = "FAdd", I, exact)
          [] op = "Select" ->
               IF Kind = "FAdd" \/ Kind = "FMul"
               THEN isConditionalRdxPattern(G, Kind, I)
               ELSE MinMaxArm(G, I, Kind, Prev, FuncFMF)
          [] op \in {"FCmp", "ICmp"} -> MinMaxArm(G, I, Kind, Prev, FuncFMF)
          [] OTHER -> InstDescB(FALSE, I, Null)

isRecurrenceInstr(G, I, Kind, Prev, FuncFMF) ==
    LET op == Op(G, I)
        exact == IF hasAllowReassoc(G, I) THEN Null ELSE I
    IN  CASE op = "PHI" -> InstDescK(I, Prev.RecKind, Prev.ExactFPMathInst)
          [] op \in {"Sub", "Add"} -> InstDescB(Kind = "Add", I, Null)
          [] op = "Mul" -> InstDescB(Kind = "Mul", I, Null)
          [] op = "And" -> InstDescB(Kind = "And", I, Null)
          [] op = "Or" -> InstDescB(Kind = "Or", I, Null)
          [] op = "Xor" -> InstDescB(Kind = "Xor", I, Null)
          [] op \in {"FDiv", "FMul"} -> InstDescB(Kind = "FMul", I, exact)
          [] op \in {"FSub", "FAdd"} -> InstDescB(Kind = "FAdd", I, exact)
          [] op = "Select" ->
               IF Kind = "FAdd" \/ Kind = "FMul"
               THEN isConditionalRdxPattern(G, Kind, I)
               ELSE MinMaxArm(G, I, Kind, Prev, FuncFMF)
          [] op \in {"FCmp", "ICmp"} -> MinMaxArm(G, I, Kind, Prev, FuncFMF)
          [] OTHER -> InstDescB(FALSE, I, Null)

\* Insts.count(dyn_cast<Instruction>(U)): a non-instruction is never in a set
RECURSIVE CountUses(_, _, _, _, _)
CountUses(ops, Insts, MaxNumUses, i, NumUses) ==
    IF i > Len(ops) THEN FALSE
    ELSE LET n == IF ops[i] \in Insts THEN NumUses + 1 ELSE NumUses
         IN  IF n > MaxNumUses THEN TRUE
             ELSE CountUses(ops, Insts, MaxNumUses, i + 1, n)

hasMultipleUsesOf(G, I, Insts, MaxNumUses) ==
    CountUses(Operands(G, I), Insts, MaxNumUses, 1, 0)

\* variant satisfied by one operand in the set
areAnyUsesIn(G, I, Set) ==
    \E i \in 1..Len(Operands(G, I)) : Operand(G, I, i) \in Set

areAllUsesIn(G, I, Set) ==
    \A i \in 1..Len(Operands(G, I)) : Operand(G, I, i) \in Set

---------------------------------------------------------------------------
(* Type promotion: lookThroughAnd, computeRecurrenceType,                  *)
(* collectCastsToIgnore                                                    *)

\* APInt::exactLogBase2 of (M + 1) computed in the width w of the constant:
\* -1 unless the wrapped sum is a power of two
RECURSIVE Log2Exact(_, _)
Log2Exact(x, k) ==
    IF x = Pow2(k) THEN k
    ELSE IF Pow2(k) > x THEN -1
    ELSE Log2Exact(x, k + 1)

exactLogBase2PlusOne(M, w) ==
    LET s == (M + 1) % Pow2(w)
    IN  IF s = 0 THEN -1 ELSE Log2Exact(s, 0)

\* m_c_And(m_Instruction(I), m_APInt(M)) on J: the constant operand, or Null
AndMask(G, J) ==
    IF Op(G, J) /= "And" THEN Null
    ELSE IF IsInst(G, Operand(G, J, 1)) /\ IsConstInt(Operand(G, J, 2))
    THEN Operand(G, J, 2)
    ELSE IF IsInst(G, Operand(G, J, 2)) /\ IsConstInt(Operand(G, J, 1))
    THEN Operand(G, J, 1)
    ELSE Null

\* returns the start node, the recurrence type and the additions to Visited
\* and CI
lookThroughAnd(G, P, RT) ==
    LET keep == [Start |-> P, RT |-> RT, Visited |-> {}, CI |-> {}]
    IN  IF ~hasOneUse(G, P) THEN keep
        ELSE LET J == Users(G, P)[1]
                 M == AndMask(G, J)
                 Bits == IF M = Null THEN -1
                         ELSE exactLogBase2PlusOne(ConstValue(M), TypeOf(G, J).w)
             IN  IF M /= Null /\ Bits > 0
                 THEN [Start |-> J, RT |-> IntTy(Bits), Visited |-> {P},
                       CI |-> {J}]
                 ELSE keep

isPowerOf2(x) == x > 0 /\ \E k \in 0..x : Pow2(k) = x
RECURSIVE NextPowerOf2From(_, _)
NextPowerOf2From(x, p) == IF p > x THEN p ELSE NextPowerOf2From(x, 2 * p)
NextPowerOf2(x) == NextPowerOf2From(x, 1)

\* o is what the oracles answer for Exit: o.hasDB / o.hasACDT say which
\* oracles the caller passed; o.demanded is
\* Mask.getBitWidth() - Mask.countLeadingZeros(); o.signBits is
\* ComputeNumSignBits; o.known is "nonneg", "neg" or "unknown"
computeRecurrenceType(G, Exit, o) ==
    LET TypeBits == TypeOf(G, Exit).w
        w1 == IF o.hasDB THEN o.demanded ELSE TypeBits
        useVT == w1 = TypeBits /\ o.hasACDT
        w2 == IF useVT THEN TypeBits - o.signBits ELSE w1
        IsSigned == useVT /\ o.known /= "nonneg"
        w3 == IF useVT /\ o.known = "unknown" THEN w2 + 1 ELSE w2
        w4 == IF isPowerOf2(w3) THEN w3 ELSE NextPowerOf2(w3)
    IN  [Type |-> IntTy(w4), IsSigned |-> IsSigned]

RECURSIVE PushOperands(_, _, _, _, _)
PushOperands(G, ops, i, Visited, Worklist) ==
    IF i > Len(ops) THEN Worklist
    ELSE PushOperands(G, ops, i + 1, Visited,
            IF LoopContains(G, ops[i]) /\ ops[i] \notin Visited
            THEN Append(Worklist, ops[i]) ELSE Worklist)

RECURSIVE CollectLoop(_, _, _, _, _)
CollectLoop(G, RecurrenceType, Worklist, Visited, Casts) ==
    IF Worklist = <<>> THEN Casts
    ELSE LET Val == Worklist[Len(Worklist)]
             rest == SubSeq(Worklist, 1, Len(Worklist) - 1)
             V2 == Visited \cup {Val}
         IN  IF isaCast(G, Val) /\
                TypeOf(G, Operand(G, Val, 1)) = RecurrenceType
             THEN CollectLoop(G, RecurrenceType, rest, V2, Casts \cup {Val})
             ELSE CollectLoop(G, RecurrenceType,
                      PushOperands(G, Operands(G, Val), 1, V2, rest),
                      V2, Casts)

collectCastsToIgnore(G, Exit, RecurrenceType, Casts) ==
    CollectLoop(G, RecurrenceType, <<Exit>>, {}, Casts)

\* the test without the look at the operands of the exit instruction
checkOrderedReductionAnyOperand(G, Kind, ExactFPMathInst, Exit, P) ==
    /\ Kind = "FAdd"
    /\ Op(G, Exit) = "FAdd"
    /\ Exit = ExactFPMathInst

checkOrderedReduction(G, Kind, ExactFPMathInst, Exit, P) ==
    IF Kind /= "FAdd" THEN FALSE
    ELSE IF Op(G, Exit) /= "FAdd" \/ Exit /= ExactFPMathInst THEN FALSE
    ELSE IF Operand(G, Exit, 1) /= P /\ Operand(G, Exit, 2) /= P THEN FALSE
    ELSE TRUE

---------------------------------------------------------------------------
(* RecurrenceDescriptor::AddReductionVar *)

NullTy == [k |-> "null", w |-> 0]

\* a default-constructed RecurrenceDescriptor
EmptyRedDes ==
    [StartValue |-> Null, LoopExitInstr |-> Null, Kind |-> None, FMF |-> {},
     ExactFPMathInst |-> Null, RecurrenceType |-> NullTy, IsSigned |-> FALSE,
     IsOrdered |-> FALSE, CastInsts |-> {}]

NoOracle ==
    [hasDB |-> FALSE, demanded |-> 0, hasACDT |-> FALSE, signBits |-> 1,
     known |-> "unknown", asked |-> FALSE]

\* the locals as declared at the top of the function, before any statement
ArvIdle ==
    [pc |-> "idle", ret |-> "none", Kind |-> None, RdxStart |-> Null,
     ExitInstruction |-> Null, FoundReduxOp |-> FALSE,
     FoundStartPHI |-> FALSE, NumCmpSelectPatternInst |-> 0,
     ReduxDesc |-> InstDescB(FALSE, Null, Null), RecurrenceType |-> NullTy,
     CastInsts |-> {}, Start |-> Null, IsSigned |-> FALSE,
     VisitedInsts |-> {}, Worklist |-> <<>>, FMF |-> {}, IsOrdered |-> FALSE,
     ComputedType |-> NullTy]

ReturnFalse(f) == [f EXCEPT !.pc = "done", !.ret = "false"]

\* from the entry of the function to the first test of the while loop
ArvEnter(G, P, Kind) ==
    LET f0 == [ArvIdle EXCEPT !.Kind = Kind]
    IN
    IF Len(Operands(G, P)) /= 2 THEN ReturnFalse(f0)
    ELSE IF Parent(G, P) /= G.header THEN ReturnFalse(f0)
    ELSE
    IF IncomingOrUB(G, P, G.preheader) = Abort
    THEN [f0 EXCEPT !.pc = "done", !.ret = "abort"]
    ELSE
    LET f1 == [f0 EXCEPT
                 !.RdxStart = IncomingOrUB(G, P, G.preheader),
                 !.RecurrenceType = TypeOf(G, P), !.Start = P]
        lta == IF isArithmeticRecurrenceKind(Kind)
               THEN lookThroughAnd(G, P, TypeOf(G, P))
               ELSE [Start |-> P, RT |-> TypeOf(G, P), Visited |-> {},
                     CI |-> {}]
    IN  IF TypeOf(G, P).k = "fp"
        THEN IF ~isFloatingPointRecurrenceKind(Kind) THEN ReturnFalse(f1)
             ELSE [f1 EXCEPT !.pc = "loop", !.Worklist = <<P>>,
                             !.VisitedInsts = {P}, !.FMF = AllFMF]
        ELSE IF TypeOf(G, P).k = "int"
        THEN IF ~isIntegerRecurrenceKind(Kind) THEN ReturnFalse(f1)
             ELSE [f1 EXCEPT !.pc = "loop", !.Start = lta.Start,
                             !.RecurrenceType = lta.RT,
                             !.CastInsts = lta.CI,
                             !.Worklist = <<lta.Start>>,
                             !.VisitedInsts = lta.Visited \cup {lta.Start},
                             !.FMF = AllFMF]
        ELSE ReturnFalse(f1)

\* every escaping instruction taken to feed the merge node
FeedsPhiAlways(G, P, Cur) == TRUE

\* is_contained(Phi->operands(), Cur)
FeedsPhi(G, P, Cur) == SeqContains(Operands(G, P), Cur)

\* an out-of-loop user UI of Cur: "ok" with the new ExitInstruction, or fail
ExitUser(G, P, Cur, ExitInstruction) ==
    IF ExitInstruction = Cur
    THEN [fail |-> FALSE, ExitInstruction |-> ExitInstruction]
    ELSE IF ExitInstruction /= Null \/ Cur = P
    THEN [fail |-> TRUE, ExitInstruction |-> ExitInstruction]
    ELSE IF ~FeedsPhi(G, P, Cur)
    THEN [fail |-> TRUE, ExitInstruction |-> ExitInstruction]
    ELSE [fail |-> FALSE, ExitInstruction |-> Cur]

\* a loop-internal user UI that was already visited: may it be used again?
RevisitRejected(G, Kind, UI) ==
    /\ ~isaPHI(G, UI)
    /\ \/ (~isaFCmp(G, UI) /\ ~isaICmp(G, UI) /\ ~isaSelect(G, UI))
       \/ (/\ ~isConditionalRdxPattern(G, Kind, UI).IsRecurrence
           /\ ~isMinMaxSelectCmpPattern(G, UI,
                   InstDescB(FALSE, Null, Null)).IsRecurrence)

\* variant that queues a merge-node user again when it was visited before
RECURSIVE ScanUsersRequeue(_, _, _, _, _, _, _)
ScanUsersRequeue(G, P, Kind, Cur, us, i, st) ==
    IF i > Len(us) THEN st
    ELSE
    LET UI == us[i]
    IN  IF ~LoopContains(G, UI)
        THEN LET e == ExitUser(G, P, Cur, st.ExitInstruction)
             IN  IF e.fail THEN [st EXCEPT !.fail = TRUE]
                 ELSE ScanUsersRequeue(G, P, Kind, Cur, us, i + 1,
                        [st EXCEPT !.ExitInstruction = e.ExitInstruction])
        ELSE IF UI \notin st.VisitedInsts \/ (isaPHI(G, UI) /\ UI /= P)
        THEN ScanUsersRequeue(G, P, Kind, Cur, us, i + 1,
               [st EXCEPT
                  !.VisitedInsts = @ \cup {UI},
                  !.PHIs = IF isaPHI(G, UI) THEN Append(@, UI) ELSE @,
                  !.NonPHIs = IF isaPHI(G, UI) THEN @ ELSE Append(@, UI),
                  !.FoundStartPHI = @ \/ UI = P])
        ELSE IF RevisitRejected(G, Kind, UI)
        THEN [st EXCEPT !.fail = TRUE]
        ELSE ScanUsersRequeue(G, P, Kind, Cur, us, i + 1,
               [st EXCEPT !.FoundStartPHI = @ \/ UI = P])

\* the loop over Cur->users(); st carries ExitInstruction, VisitedInsts,
\* FoundStartPHI and the two push lists
RECURSIVE ScanUsers(_, _, _, _, _, _, _)
ScanUsers(G, P, Kind, Cur, us, i, st) ==
    IF i > Len(us) THEN st
    ELSE
    LET UI == us[i]
    IN  IF ~LoopContains(G, UI)
        THEN LET e == ExitUser(G, P, Cur, st.ExitInstruction)
             IN  IF e.fail THEN [st EXCEPT !.fail = TRUE]
                 ELSE ScanUsers(G, P, Kind, Cur, us, i + 1,
                        [st EXCEPT !.ExitInstruction = e.ExitInstruction])
        ELSE IF UI \notin st.VisitedInsts
        THEN ScanUsers(G, P, Kind, Cur, us, i + 1,
               [st EXCEPT
                  !.VisitedInsts = @ \cup {UI},
                  !.PHIs = IF isaPHI(G, UI) THEN Append(@, UI) ELSE @,
                  !.NonPHIs = IF isaPHI(G, UI) THEN @ ELSE Append(@, UI),
                  !.FoundStartPHI = @ \/ UI = P])
        ELSE IF RevisitRejected(G, Kind, UI)
        THEN [st EXCEPT !.fail = TRUE]
        ELSE ScanUsers(G, P, Kind, Cur, us, i + 1,
               [st EXCEPT !.FoundStartPHI = @ \/ UI = P])

\* the fast-math flags of the pattern instruction, with those of the fcmp of
\* a select
PatternFMF(G, Pat) ==
    getFastMathFlags(G, Pat) \cup
    (IF isaSelect(G, Pat) /\ isaFCmp(G, Operand(G, Pat, 1))
     THEN getFastMathFlags(G, Operand(G, Pat, 1)) ELSE {})

\* the use-count limits of one popped instruction
UseCountViolated(G, P, Kind, Cur, VisitedInsts) ==
    \/ /\ isaSelect(G, Cur)
       /\ (Kind = "FAdd" \/ Kind = "FMul")
       /\ hasMultipleUsesOf(G, Cur, VisitedInsts, 2)
    \/ /\ ~isaPHI(G, Cur) /\ ~isaSelect(G, Cur)
       /\ ~isMinMaxRecurrenceKind(Kind)
       /\ hasMultipleUsesOf(G, Cur, VisitedInsts, 1)
    \/ /\ isaPHI(G, Cur) /\ Cur /= P
       /\ ~areAllUsesIn(G, Cur, VisitedInsts)

\* the instructions NumCmpSelectPatternInst counts
CountsAsCmpSelect(G, Kind, Cur) ==
    (IF isIntMinMaxRecurrenceKind(Kind) /\
        (isaICmp(G, Cur) \/ isaSelect(G, Cur)) THEN 1 ELSE 0) +
    (IF isFPMinMaxRecurrenceKind(Kind) /\
        (isaFCmp(G, Cur) \/ isaSelect(G, Cur)) THEN 1 ELSE 0)

\* variant that accepts the reduction value on either side
NonCommutativeAccepted(G, Cur, VisitedInsts) == FALSE

\* a right-only reduction operand of a non-commutative instruction
NonCommutativeRejected(G, Cur, VisitedInsts) ==
    /\ ~isCommutative(G, Cur) /\ ~isaPHI(G, Cur) /\ ~isaSelect(G, Cur)
    /\ ~isaICmp(G, Cur) /\ ~isaFCmp(G, Cur)
    /\ Operand(G, Cur, 1) \notin VisitedInsts

\* one iteration of the while loop over the worklist
ArvIter(G, P, f) ==
    LET Cur == f.Worklist[Len(f.Worklist)]
        popped == [f EXCEPT !.Worklist = SubSeq(@, 1, Len(@) - 1)]
        IsAPhi == isaPHI(G, Cur)
    IN
    IF use_empty(G, Cur) THEN ReturnFalse(popped)
    ELSE IF Cur /= P /\ IsAPhi /\ Parent(G, Cur) = Parent(G, P)
    THEN ReturnFalse(popped)
    ELSE IF NonCommutativeRejected(G, Cur, f.VisitedInsts)
    THEN ReturnFalse(popped)
    ELSE
    LET RD == IF Cur /= f.Start
              THEN isRecurrenceInstr(G, Cur, f.Kind, f.ReduxDesc, G.fnFMF)
              ELSE f.ReduxDesc
        f1 == [popped EXCEPT !.ReduxDesc = RD]
    IN
    IF Cur /= f.Start /\ ~RD.IsRecurrence THEN ReturnFalse(f1)
    ELSE
    LET FMF == IF Cur /= f.Start /\ ~IsAPhi /\
                  isFPMathOperator(G, RD.PatternLastInst)
               THEN f.FMF \cap PatternFMF(G, RD.PatternLastInst)
               ELSE f.FMF
        Kind == IF Cur /= f.Start /\ RD.RecKind /= None
                THEN RD.RecKind ELSE f.Kind
        f2 == [f1 EXCEPT !.FMF = FMF, !.Kind = Kind]
    IN
    IF UseCountViolated(G, P, Kind, Cur, f.VisitedInsts)
    THEN ReturnFalse(f2)
    ELSE
    LET f3 == [f2 EXCEPT
                 !.NumCmpSelectPatternInst =
                     @ + CountsAsCmpSelect(G, Kind, Cur),
                 !.FoundReduxOp = @ \/ (~IsAPhi /\ Cur /= f.Start)]
        st == ScanUsers(G, P, Kind, Cur, Users(G, Cur), 1,
                [fail |-> FALSE, ExitInstruction |-> f3.ExitInstruction,
                 VisitedInsts |-> f3.VisitedInsts,
                 FoundStartPHI |-> f3.FoundStartPHI,
                 PHIs |-> <<>>, NonPHIs |-> <<>>])
        f4 == [f3 EXCEPT !.ExitInstruction = st.ExitInstruction,
                         !.VisitedInsts = st.VisitedInsts,
                         !.FoundStartPHI = st.FoundStartPHI]
    IN  IF st.fail THEN ReturnFalse(f4)
        ELSE [f4 EXCEPT !.Worklist = (@ \o st.PHIs) \o st.NonPHIs]

\* the final tests without the count of compare/select instructions
TraversalSucceededAnyCount(f) ==
    f.FoundStartPHI /\ f.FoundReduxOp /\ f.ExitInstruction /= Null

\* the tests made once the worklist is empty
TraversalSucceeded(f) ==
    /\ ~(isMinMaxRecurrenceKind(f.Kind) /\ f.NumCmpSelectPatternInst /= 2)
    /\ f.FoundStartPHI /\ f.FoundReduxOp /\ f.ExitInstruction /= Null

\* any recomputed type accepted
NarrowingNeverRejected(f, ComputedType) == FALSE

\* Start != Phi: the recomputed type must be the type the mask announced
NarrowingRejected(f, ComputedType) == ComputedType /= f.RecurrenceType

\* from the exit of the while loop to the return; o holds the oracles'
\* answers
ArvExit(G, P, f, o) ==
    IF ~TraversalSucceeded(f) THEN ReturnFalse(f)
    ELSE
    LET IsOrdered == checkOrderedReduction(G, f.Kind,
                        f.ReduxDesc.ExactFPMathInst, f.ExitInstruction, P)
        f1 == [f EXCEPT !.IsOrdered = IsOrdered]
    IN
    IF f.Start = P THEN [f1 EXCEPT !.pc = "done", !.ret = "true"]
    ELSE
    LET ct == computeRecurrenceType(G, f.ExitInstruction, o)
        f2 == [f1 EXCEPT !.ComputedType = ct.Type, !.IsSigned = ct.IsSigned]
    IN  IF NarrowingRejected(f, ct.Type) THEN ReturnFalse(f2)
        ELSE [f2 EXCEPT
                !.CastInsts = collectCastsToIgnore(G, f.ExitInstruction,
                                  f.RecurrenceType, f.CastInsts),
                !.pc = "done", !.ret = "true"]

\* RecurrenceDescriptor RD(...); RedDes = RD;
MakeRedDes(f) ==
    [StartValue |-> f.RdxStart, LoopExitInstr |-> f.ExitInstruction,
     Kind |-> f.Kind, FMF |-> f.FMF,
     ExactFPMathInst |-> f.ReduxDesc.ExactFPMathInst,
     RecurrenceType |-> f.RecurrenceType, IsSigned |-> f.IsSigned,
     IsOrdered |-> f.IsOrdered, CastInsts |-> f.CastInsts]

---------------------------------------------------------------------------
(* The graphs the matcher is run on.  Every graph is a single loop whose   *)
(* header holds the merge node (instruction 1) with the incoming values    *)
(* <<start from the preheader, value over the backedge>>.                  *)

RECURSIVE SortedSeq(_)
SortedSeq(S) ==
    IF S = {} THEN <<>>
    ELSE LET m == CHOOSE x \in S : \A y \in S : x <= y
         IN  <<m>> \o SortedSeq(S \ {m})

HeaderPhi(back, ty) ==
    MkPhi(<<StartV, back>>, <<"preheader", "header">>, "header", ty)

ExitUsers(ext, ty) ==
    LET e == SortedSeq(ext) IN [j \in 1..Len(e) |-> MkExit(e[j], ty)]

\* G.header, G.preheader, G.latch: the loop's getHeader(),
\* getLoopPreheader() and getLoopLatch(); G.build: "assert" for a build with
\* assertions, otherwise what a read outside an operand list yields
MkLoop(ins, rev, fnFMF, latch) ==
    [ins |-> ins, rev |-> rev, fnFMF |-> fnFMF, header |-> "header",
     preheader |-> "preheader", latch |-> latch, build |-> "assert"]

MkGraph(ins, rev, fnFMF) == MkLoop(ins, rev, fnFMF, "header")

FMFChoices == {{}, {"reassoc"}, AllFMF}

(* Chains: merge node -> op_1 -> ... -> op_L, each op taking its predecessor
   on one side and a loop-invariant value on the other. *)
IntOps(L) == IF L = 1 THEN {"Add", "Sub", "Mul", "And", "Or", "Xor", "Shl"}
             ELSE IF L = 2 THEN {"Add", "Sub", "Mul"}
             ELSE {"Add", "Sub"}
FPOps(L) == IF L = 1 THEN {"FAdd", "FSub", "FMul", "FDiv"}
            ELSE IF L = 2 THEN {"FAdd", "FSub", "FMul"}
            ELSE {"FAdd", "FSub"}
FPFlags(L) == IF L = 1 THEN FMFChoices ELSE {{}, AllFMF}
ChainRevs(L) == IF L = 1 THEN BOOLEAN ELSE {FALSE}

NodeSpecs(ty, L) ==
    IF ty.k = "int"
    THEN [op : IntOps(L), side : {0, 1}, fmf : {{}}]
    ELSE [op : FPOps(L), side : {0, 1}, fmf : FPFlags(L)]

ChainInst(spec, prev, ty) ==
    [MkInst(spec.op,
            IF spec.side = 0 THEN <<prev, ArgX>> ELSE <<ArgX, prev>>,
            "header", ty) EXCEPT !.fmf = spec.fmf]

ChainGraph(ty, specs, back, ext, rev) ==
    MkGraph(<<HeaderPhi(back, ty)>> \o
            [i \in 1..Len(specs) |-> ChainInst(specs[i], i, ty)] \o
            ExitUsers(ext, ty),
            rev, {})

ChainBacks(L) == IF L = 1 THEN {2, ArgX} ELSE {2, L + 1}
ChainExts(L) == IF L = 1 THEN SUBSET {1, 2} ELSE SUBSET {2, L + 1}

ChainGraphs ==
    UNION { UNION { { ChainGraph(ty, specs, back, ext, rev) :
                        specs \in [1..L -> NodeSpecs(ty, L)],
                        back \in ChainBacks(L), ext \in ChainExts(L),
                        rev \in ChainRevs(L) } :
                    L \in 1..MaxChain } :
            ty \in {IntTy(PhiBits), FloatTy} }

(* Min/max idioms: cmp(a, b) and select(cmp, t, f) over the merge node and a
   loop-invariant value, optionally with a second user of the compare, and
   optionally followed by a second compare/select pair. *)
MinMaxPreds(ty) ==
    IF ty.k = "int" THEN {"ICMP_SLT", "ICMP_SGT", "ICMP_ULT", "ICMP_UGE",
                          "ICMP_EQ"}
    ELSE {"FCMP_OLT", "FCMP_UGT", "FCMP_OEQ"}

Pair(swap, a, b) == IF swap THEN <<b, a>> ELSE <<a, b>>

CmpSel(ty, pred, cswap, sswap, in, cmpId, fmf) ==
    <<MkCmp(IF ty.k = "int" THEN "ICmp" ELSE "FCmp", pred,
            Pair(cswap, in, ArgX), "header", fmf),
      [MkInst("Select", <<cmpId>> \o Pair(sswap, in, ArgX), "header", ty)
          EXCEPT !.fmf = fmf]>>

\* flags[1] are the function's fast-math attributes, flags[2] the flags on
\* the compare and the select
MinMaxGraph(ty, pred, cswap, sswap, variant, ext, rev, flags) ==
    LET twice == variant = "twice"
        extraUse == variant = "extraUse"
        last == IF twice THEN 5 ELSE 3
    IN  MkGraph(<<HeaderPhi(last, ty)>> \o
                CmpSel(ty, pred, cswap, sswap, 1, 2, flags[2]) \o
                (IF twice THEN CmpSel(ty, pred, cswap, sswap, 3, 4, flags[2])
                 ELSE <<>>) \o
                (IF extraUse THEN <<MkExit(2, IntTy(1))>> ELSE <<>>) \o
                ExitUsers(IF ext THEN {last} ELSE {}, ty),
                rev, flags[1])

FuncFMFChoices(ty) ==
    IF ty.k = "int" THEN {<<{}, {}>>}
    ELSE {<<{}, {}>>, <<{"nnan"}, {}>>, <<{"nnan", "nsz"}, {}>>,
          <<{}, {"nnan", "nsz"}>>, <<{"nnan", "nsz"}, {"nnan", "nsz"}>>}

MinMaxGraphs ==
    UNION { { MinMaxGraph(ty, pred, cswap, sswap, variant, ext, rev, flags) :
                pred \in MinMaxPreds(ty), cswap \in BOOLEAN,
                sswap \in BOOLEAN,
                variant \in {"plain", "twice", "extraUse"},
                ext \in BOOLEAN, rev \in BOOLEAN,
                flags \in FuncFMFChoices(ty) } :
            ty \in {IntTy(PhiBits), FloatTy} }

(* Conditional reductions: sum.2 = select(fcmp(x, c), op(sum.1, x), sum.1) *)
CondGraph(op, fmf, oswap, sswap, rev) ==
    MkGraph(<<HeaderPhi(4, FloatTy),
              MkCmp("FCmp", "FCMP_OGT", <<ArgX, ArgX>>, "header", {}),
              MkFP(op, Pair(oswap, 1, ArgX), "header", fmf),
              MkInst("Select", <<2>> \o Pair(sswap, 3, 1), "header", FloatTy),
              MkExit(4, FloatTy)>>,
            rev, {})

CondGraphs ==
    { CondGraph(op, fmf, oswap, sswap, rev) :
        op \in {"FAdd", "FSub", "FMul"}, fmf \in FMFChoices,
        oswap \in BOOLEAN, sswap \in BOOLEAN, rev \in BOOLEAN }

(* Type-promoted reductions: the merge node's single use is an AND with the
   mask 2^n - 1; the operation adds a value that may come from a cast of an
   m-bit load. *)
NarrowGraph(n, op, aswap, oswap, castBits, rev) ==
    LET ty == IntTy(PhiBits)
        other == IF castBits = 0 THEN ArgX ELSE 5
    IN  MkGraph(<<HeaderPhi(3, ty),
                  MkInst("And", Pair(aswap, 1, ConstInt(Pow2(n) - 1)),
                         "header", ty),
                  MkInst(op, Pair(oswap, 2, other), "header", ty),
                  MkExit(3, ty)>> \o
                (IF castBits = 0 THEN <<>>
                 ELSE <<[MkInst("ZExt", <<6>>, "header", ty)
                            EXCEPT !.eff = "none"],
                        [MkInst("Load", <<ArgX>>, "header", IntTy(castBits))
                            EXCEPT !.eff = "read"]>>),
                rev, {})

NarrowGraphs ==
    { NarrowGraph(n, op, aswap, oswap, castBits, FALSE) :
        n \in 1..PhiBits, op \in {"Add", "Sub", "Mul"}, aswap \in {FALSE},
        oswap \in BOOLEAN, castBits \in {0, 2, 4} }

(* A bitwise-AND reduction whose other operand is itself a mask constant *)
MaskGraph(n, aswap, ext, rev) ==
    LET ty == IntTy(PhiBits)
    IN  MkGraph(<<HeaderPhi(2, ty),
                  MkInst("And", Pair(aswap, 1, ConstInt(Pow2(n) - 1)),
                         "header", ty)>> \o
                ExitUsers(IF ext THEN {2} ELSE {}, ty),
                rev, {})

MaskGraphs ==
    { MaskGraph(n, aswap, ext, rev) :
        n \in 1..PhiBits, aswap \in BOOLEAN, ext \in BOOLEAN,
        rev \in BOOLEAN }

(* Reductions through an inner merge node: the operation sits in a
   conditional block and a merge node joins it with the header value. *)
InnerPhiGraph(op, oswap, pswap, innerBlk, rev) ==
    LET ty == IntTy(PhiBits)
    IN  MkLoop(<<MkPhi(<<StartV, 3>>, <<"preheader", "latch">>, "header",
                       ty),
                 MkInst(op, Pair(oswap, 1, ArgX), "body", ty),
                 MkPhi(Pair(pswap, 2, 1), Pair(pswap, "body", "header"),
                       innerBlk, ty),
                 MkExit(3, ty)>>,
               rev, {}, "latch")

InnerPhiGraphs ==
    { InnerPhiGraph(op, oswap, pswap, innerBlk, rev) :
        op \in {"Add", "Sub", "Xor"}, oswap \in BOOLEAN, pswap \in BOOLEAN,
        innerBlk \in {"latch", "header"}, rev \in BOOLEAN }

(* A reduction updated on both arms of a branch: a = phi op x on the way in,
   b = a op y on one arm, c on the other, merged by a merge node in the
   latch.  shape "diamond": c = z op a.  "both": c = phi op a, a node with
   two operands from the chain.  "open": c is outside the chain and the
   merge node takes an argument instead of it.  "uneven": c = phi op z, an
   arm of one operation beside the arm a, b of two.  "twice": the arms are
   merged twice, by phi(a, b) and phi(a, b), and these by a third merge
   node. *)
DiamondGraph(op, shape, rev) ==
    LET ty == IntTy(PhiBits)
        a == MkInst(op, <<1, ArgX>>, "header", ty)
        b == MkInst(op, <<2, ArgX>>, "body", ty)
        c == MkInst(op, CASE shape = "both" -> <<1, 2>>
                          [] shape = "open" -> <<ArgX, ArgX>>
                          [] shape = "uneven" -> <<1, ArgX>>
                          [] OTHER -> <<ArgX, 2>>,
                    "body", ty)
        inner(x, y) == MkPhi(<<x, y>>, <<"header", "body">>, "latch", ty)
    IN  IF shape = "twice"
        THEN MkLoop(<<MkPhi(<<StartV, 6>>, <<"preheader", "latch">>,
                            "header", ty),
                      a, b, inner(2, 3), inner(2, 3), inner(4, 5),
                      MkExit(6, ty)>>, rev, {}, "latch")
        ELSE MkLoop(<<MkPhi(<<StartV, 5>>, <<"preheader", "latch">>,
                            "header", ty),
                      a, b, c,
                      inner(3, IF shape = "open" THEN ArgX ELSE 4),
                      MkExit(5, ty)>>, rev, {}, "latch")

DiamondGraphs ==
    { DiamondGraph(op, shape, rev) :
        op \in {"Add", "Mul"},
        shape \in {"diamond", "both", "open", "uneven", "twice"},
        rev \in BOOLEAN }

(* A conditional reduction whose compare reads the merge node: all three
   operands of the select come from the chain *)
BusySelectGraph(op, oswap, rev) ==
    MkGraph(<<HeaderPhi(4, FloatTy),
              MkCmp("FCmp", "FCMP_OGT", <<1, ArgX>>, "header", {}),
              MkFP(op, Pair(oswap, 1, ArgX), "header", AllFMF),
              MkInst("Select", <<2, 3, 1>>, "header", FloatTy),
              MkExit(4, FloatTy)>>,
            rev, {})

BusySelectGraphs ==
    { BusySelectGraph(op, oswap, rev) :
        op \in {"FAdd", "FMul"}, oswap \in BOOLEAN, rev \in BOOLEAN }

ReductionGraphs ==
    ChainGraphs \cup MinMaxGraphs \cup CondGraphs \cup NarrowGraphs \cup
    MaskGraphs \cup InnerPhiGraphs \cup DiamondGraphs \cup BusySelectGraphs

\* what the oracles can answer about an exit instruction of PhiBits bits;
\* an oracle that is not consulted answers nothing
OracleAnswers ==
    { [hasDB |-> TRUE, demanded |-> d, hasACDT |-> a, signBits |-> 1,
       known |-> "unknown", asked |-> TRUE] :
        d \in 0..(PhiBits - 1), a \in BOOLEAN } \cup
    { [hasDB |-> b, demanded |-> IF b THEN PhiBits ELSE 0, hasACDT |-> FALSE,
       signBits |-> 1, known |-> "unknown", asked |-> TRUE] :
        b \in BOOLEAN } \cup
    { [hasDB |-> b, demanded |-> IF b THEN PhiBits ELSE 0, hasACDT |-> TRUE,
       signBits |-> sb, known |-> kn, asked |-> TRUE] :
        b \in BOOLEAN, sb \in 1..PhiBits,
        kn \in {"nonneg", "neg", "unknown"} }

---------------------------------------------------------------------------
(* RecurrenceDescriptor::isFirstOrderRecurrence *)

\* the blocks lie on a line preheader -> header -> body -> latch -> exit,
\* so a block dominates the blocks after it
BlockIndex(b) ==
    CASE b = "preheader" -> 0 [] b = "header" -> 1 [] b = "body" -> 2
      [] b = "latch" -> 3 [] OTHER -> 4

\* A->comesBefore(B): the instructions of a block are numbered in program
\* order
comesBefore(A, B) == A < B

\* DominatorTree::dominates(Def, User) for two instructions
dominates(G, Def, User) ==
    IF Def = User THEN FALSE
    ELSE IF isaPHI(G, User) \/ Parent(G, Def) /= Parent(G, User)
    THEN /\ Parent(G, Def) /= Parent(G, User)
         /\ BlockIndex(Parent(G, Def)) < BlockIndex(Parent(G, User))
    ELSE comesBefore(Def, User)

mayHaveSideEffects(G, v) == G.ins[v].eff = "write"
mayReadFromMemory(G, v) == G.ins[v].eff = "read"
isTerminator(G, v) == G.ins[v].eff = "term"

\* the MapVector SinkAfter
MapKeys(m) == {m[i][1] : i \in 1..Len(m)}
\* SinkAfter[I] = V
MapSet(m, k, v) ==
    IF k \in MapKeys(m)
    THEN [i \in 1..Len(m) |-> IF m[i][1] = k THEN <<k, v>> ELSE m[i]]
    ELSE Append(m, <<k, v>>)

\* a set that keeps its elements in the order of insertion
InsertInDiscoveryOrder(s, I) ==
    IF \E i \in 1..Len(s) : s[i] = I THEN s ELSE Append(s, I)

\* InstrsToSink.insert(I): a std::set ordered by CompareByComesBefore
RECURSIVE InsertByComesBefore(_, _)
InsertByComesBefore(s, I) ==
    IF s = <<>> THEN <<I>>
    ELSE IF Head(s) = I THEN s
    ELSE IF comesBefore(I, Head(s)) THEN <<I>> \o s
    ELSE <<Head(s)>> \o InsertByComesBefore(Tail(s), I)

FrIdle ==
    [pc |-> "idle", ret |-> "none", Previous |-> Null, InstrsToSink |-> <<>>,
     WorkList |-> <<>>]

\* the tests before the traversal; WorkList.push_back(Phi)
ForEnter(G, P, SA) ==
    LET fail == [FrIdle EXCEPT !.pc = "done", !.ret = "false"]
        Previous == getIncomingValueForBlock(G, P, G.latch)
    IN  IF Parent(G, P) /= G.header \/ Len(Operands(G, P)) /= 2 THEN fail
        ELSE IF G.preheader = "none" \/ G.latch = "none" THEN fail
        ELSE IF ~SeqContains(G.ins[P].inblk, G.preheader) \/
                ~SeqContains(G.ins[P].inblk, G.latch) THEN fail
        ELSE IF ~IsInst(G, Previous) \/ ~LoopContains(G, Previous) \/
                isaPHI(G, Previous) \/ Previous \in MapKeys(SA)
        THEN [fail EXCEPT !.Previous = IF IsInst(G, Previous)
                                       THEN Previous ELSE Null]
        ELSE [FrIdle EXCEPT !.pc = "loop", !.Previous = Previous,
                            !.WorkList = <<P>>]

\* the lambda without the test for instructions that read memory
TryToPushSinkCandidateReads(G, P, Previous, SA, st, SinkCandidate) ==
    LET PhiBB == Parent(G, P)
        yes == [st EXCEPT !.ok = TRUE]
        no == [st EXCEPT !.ok = FALSE]
    IN  IF Parent(G, SinkCandidate) = PhiBB /\
           SeqContains(st.InstrsToSink, SinkCandidate) THEN yes
        ELSE IF Previous = SinkCandidate THEN no
        ELSE IF dominates(G, Previous, SinkCandidate) THEN yes
        ELSE IF Parent(G, SinkCandidate) /= PhiBB \/
                mayHaveSideEffects(G, SinkCandidate) \/
                isTerminator(G, SinkCandidate) THEN no
        ELSE IF SinkCandidate \in MapKeys(SA) THEN no
        ELSE IF isaPHI(G, SinkCandidate) THEN yes
        ELSE [ok |-> TRUE,
              InstrsToSink |-> InsertByComesBefore(st.InstrsToSink,
                                                   SinkCandidate),
              WorkList |-> Append(st.WorkList, SinkCandidate)]

\* the lambda without the test for instructions that are keys of SinkAfter
TryToPushSinkCandidateAgain(G, P, Previous, SA, st, SinkCandidate) ==
    LET PhiBB == Parent(G, P)
        yes == [st EXCEPT !.ok = TRUE]
        no == [st EXCEPT !.ok = FALSE]
    IN  IF Parent(G, SinkCandidate) = PhiBB /\
           SeqContains(st.InstrsToSink, SinkCandidate) THEN yes
        ELSE IF Previous = SinkCandidate THEN no
        ELSE IF dominates(G, Previous, SinkCandidate) THEN yes
        ELSE IF Parent(G, SinkCandidate) /= PhiBB \/
                mayHaveSideEffects(G, SinkCandidate) \/
                mayReadFromMemory(G, SinkCandidate) \/
                isTerminator(G, SinkCandidate) THEN no
        ELSE IF isaPHI(G, SinkCandidate) THEN yes
        ELSE [ok |-> TRUE,
              InstrsToSink |-> InsertByComesBefore(st.InstrsToSink,
                                                   SinkCandidate),
              WorkList |-> Append(st.WorkList, SinkCandidate)]

\* the lambda TryToPushSinkCandidate; st carries InstrsToSink and WorkList
TryToPushSinkCandidate(G, P, Previous, SA, st, SinkCandidate) ==
    LET PhiBB == Parent(G, P)
        yes == [st EXCEPT !.ok = TRUE]
        no == [st EXCEPT !.ok = FALSE]
    IN  IF Parent(G, SinkCandidate) = PhiBB /\
           SeqContains(st.InstrsToSink, SinkCandidate) THEN yes
        ELSE IF Previous = SinkCandidate THEN no
        ELSE IF dominates(G, Previous, SinkCandidate) THEN yes
        ELSE IF Parent(G, SinkCandidate) /= PhiBB \/
                mayHaveSideEffects(G, SinkCandidate) \/
                mayReadFromMemory(G, SinkCandidate) \/
                isTerminator(G, SinkCandidate) THEN no
        ELSE IF SinkCandidate \in MapKeys(SA) THEN no
        ELSE IF isaPHI(G, SinkCandidate) THEN yes
        ELSE [ok |-> TRUE,
              InstrsToSink |-> InsertByComesBefore(st.InstrsToSink,
                                                   SinkCandidate),
              WorkList |-> Append(st.WorkList, SinkCandidate)]

RECURSIVE PushUsers(_, _, _, _, _, _, _)
PushUsers(G, P, Previous, SA, us, i, st) ==
    IF i > Len(us) THEN st
    ELSE LET r == TryToPushSinkCandidate(G, P, Previous, SA, st, us[i])
         IN  IF ~r.ok THEN r
             ELSE PushUsers(G, P, Previous, SA, us, i + 1, r)

\* one iteration of the while loop over WorkList
ForIter(G, P, SA, f) ==
    LET Current == f.WorkList[Len(f.WorkList)]
        st == PushUsers(G, P, f.Previous, SA, Users(G, Current), 1,
                [ok |-> TRUE, InstrsToSink |-> f.InstrsToSink,
                 WorkList |-> SubSeq(f.WorkList, 1, Len(f.WorkList) - 1)])
    IN  IF ~st.ok
        THEN [f EXCEPT !.pc = "done", !.ret = "false",
                       !.InstrsToSink = st.InstrsToSink,
                       !.WorkList = st.WorkList]
        ELSE [f EXCEPT !.InstrsToSink = st.InstrsToSink,
                       !.WorkList = st.WorkList]

\* for (Instruction *I : InstrsToSink) { SinkAfter[I] = Previous;
\*                                       Previous = I; }
RECURSIVE CommitSinks(_, _, _)
CommitSinks(SA, Previous, sinks) ==
    IF sinks = <<>> THEN SA
    ELSE CommitSinks(MapSet(SA, Head(sinks), Previous), Head(sinks),
                     Tail(sinks))

HeaderPhis(G) ==
    {v \in 1..Len(G.ins) : isaPHI(G, v) /\ Parent(G, v) = G.header}

\* the caller hands the next merge node of the header to the sinker
FOR_Enter ==
    /\ fr.pc = "idle"
    /\ \E p \in HeaderPhis(g) \ called :
          /\ Phi' = p
          /\ fr' = ForEnter(g, p, SinkAfter)
    /\ UNCHANGED <<g, redVars, SinkAfter, called, indVars, utilVars>>

\* an iteration that enters the tentative sinks into SinkAfter at once
FOR_IterEager ==
    /\ fr.pc = "loop"
    /\ fr.WorkList /= <<>>
    /\ fr' = ForIter(g, Phi, SinkAfter, fr)
    /\ SinkAfter' = CommitSinks(SinkAfter, fr.Previous, fr'.InstrsToSink)
    /\ UNCHANGED <<g, Phi, redVars, called, indVars, utilVars>>

FOR_Iter ==
    /\ fr.pc = "loop"
    /\ fr.WorkList /= <<>>
    /\ fr' = ForIter(g, Phi, SinkAfter, fr)
    /\ UNCHANGED <<g, Phi, redVars, SinkAfter, called, indVars, utilVars>>

\* the traversal rejected nothing: update the mapping and return true
FOR_Commit ==
    /\ fr.pc = "loop"
    /\ fr.WorkList = <<>>
    /\ SinkAfter' = CommitSinks(SinkAfter, fr.Previous, fr.InstrsToSink)
    /\ fr' = [fr EXCEPT !.pc = "done", !.ret = "true",
                        !.Previous = IF fr.InstrsToSink = <<>> THEN @
                                     ELSE fr.InstrsToSink[
                                              Len(fr.InstrsToSink)]]
    /\ UNCHANGED <<g, Phi, redVars, called, indVars, utilVars>>

\* the call has returned; its locals are gone
FOR_Return ==
    /\ fr.pc = "done"
    /\ called' = called \cup {Phi}
    /\ fr' = FrIdle
    /\ UNCHANGED <<g, Phi, redVars, SinkAfter, indVars, utilVars>>

---------------------------------------------------------------------------
(* Loops handed to isFirstOrderRecurrence: two merge nodes in the header,
   instructions 1 and 2, and up to MaxUsers instructions after them *)

BodyId(i) == i + 2

\* an instruction reads a merge node, the instruction before it or a loop
\* invariant; the first one may read both merge nodes
BodyOperands(i) ==
    IF i = 1 THEN {<<1, ArgX>>, <<1, 2>>, <<2, ArgX>>, <<ArgX, ArgX>>}
    ELSE {<<1, ArgX>>, <<BodyId(i - 1), ArgX>>, <<ArgX, ArgX>>}

BodyChoices(i, last) ==
    {[src |-> o[1], b |-> o[2], kind |-> k] :
        o \in BodyOperands(i),
        k \in (IF last THEN {"none", "read", "write", "term", "latch"}
               ELSE {"none", "read"})}

RECURSIVE BodyPrefixes(_)
BodyPrefixes(n) ==
    IF n = 0 THEN {<<>>}
    ELSE {Append(s, x) : s \in BodyPrefixes(n - 1),
                         x \in BodyChoices(n, FALSE)}

Bodies(n) ==
    {Append(s, x) : s \in BodyPrefixes(n - 1), x \in BodyChoices(n, TRUE)}

BodyInst(c) ==
    LET eff == IF c.kind \in {"read", "write", "term"} THEN c.kind
               ELSE "none"
        op == CASE eff = "read" -> "Load" [] eff = "write" -> "Store"
                [] eff = "term" -> "Br" [] OTHER -> "Add"
        blk == IF c.kind = "latch" THEN "latch" ELSE "header"
    IN  [MkInst(op, <<c.src, c.b>>, blk, IntTy(PhiBits)) EXCEPT !.eff = eff]

ForGraph(body, backA, backB, rev) ==
    LET n == Len(body)
        latch == IF body[n].kind = "latch" THEN "latch" ELSE "header"
        phi(back) == MkPhi(<<StartV, back>>, <<"preheader", latch>>,
                           "header", IntTy(PhiBits))
    IN  MkLoop(<<phi(backA), phi(backB)>> \o
               [i \in 1..n |-> BodyInst(body[i])], rev, {}, latch)

\* the values the latch edge of the two merge nodes may carry
BacksA(n) == {BodyId(i) : i \in 1..n}
BacksB(n) == {ArgX, 1, BodyId(1), BodyId(n)}

---------------------------------------------------------------------------
(* InductionDescriptor and the induction classifier *)

\* a pointer whose pointee has the alloc size Z; Z = -1: the pointee is
\* not sized
PtrTy(Z) == [k |-> "ptr", w |-> Z]
\* half, float, double (16, 32, 64) and the wider floating-point types
FPTy(w) == [k |-> "fp", w |-> w]
\* a type that is neither integer, pointer nor floating point
VecTy == [k |-> "vec", w |-> 4]

\* the bits of a ConstantInt of width w read as a signed number, and the
\* ConstantInt of width w made from a signed number
\* the bits read as a number without a sign
getZExtValue(bits, w) == bits

getSExtValue(bits, w) == IF bits >= Pow2(w - 1) THEN bits - Pow2(w) ELSE bits
getConstant(v, w) == v % Pow2(w)

\* a remainder test that lets every step pass
SRemNone(a, b) == 0

\* int64_t division and remainder: the quotient is truncated towards zero
SDiv(a, b) == IF a >= 0 THEN a \div b ELSE -((-a) \div b)
SRem(a, b) == a - b * SDiv(a, b)

\* SCEV expressions as far as the classifier looks at them
SCEVConstant(bits) == [kind |-> "Constant", value |-> bits, ty |-> IntTy(PhiBits)]
SCEVUnknown(v, ty) == [kind |-> "Unknown", value |-> v, ty |-> ty]
\* an expression that is no constant, e.g. the product of two arguments
SCEVMulExpr == [kind |-> "Mul", value |-> Null, ty |-> IntTy(PhiBits)]
NoSCEV == [kind |-> "none", value |-> Null, ty |-> NullTy]

getConstIntStepValue(Step) ==
    IF Step.kind = "Constant" THEN ConstInt(Step.value) ELSE Null

\* a default-constructed InductionDescriptor
EmptyD ==
    [StartValue |-> Null, IK |-> "NoInduction", Step |-> NoSCEV,
     InductionBinOp |-> Null, RedundantCasts |-> <<>>]

\* the assertions of the constructor, in their order: the first that fails
FailedAssert(G, Start, K, Step, BOp) ==
    LET CS == getConstIntStepValue(Step)
    IN  IF K = "NoInduction" THEN "Not an induction"
        ELSE IF Start = Null THEN "StartValue is null"
        ELSE IF K = "PtrInduction" /\ TypeOf(G, Start).k /= "ptr"
        THEN "StartValue is not a pointer for pointer induction"
        ELSE IF K = "IntInduction" /\ TypeOf(G, Start).k /= "int"
        THEN "StartValue is not an integer for integer induction"
        ELSE IF CS /= Null /\ ConstValue(CS) = 0 THEN "Step value is zero"
        ELSE IF K = "PtrInduction" /\ CS = Null
        THEN "Step value should be constant for pointer induction"
        ELSE IF K /= "FpInduction" /\ Step.ty.k /= "int"
        THEN "StepValue is not an integer"
        ELSE IF K = "FpInduction" /\ Step.ty.k /= "fp"
        THEN "StepValue is not FP for FpInduction"
        ELSE IF K = "FpInduction" /\
                ~(BOp /= Null /\ Op(G, BOp) \in {"FAdd", "FSub"})
        THEN "Binary opcode should be specified for FP induction"
        ELSE "none"

\* D = InductionDescriptor(Start, K, Step, BOp, Casts); return true;
\* a failed assertion ends the program in a build with assertions
InductionDescriptor(G, Start, K, Step, BOp, Casts) ==
    LET failed == FailedAssert(G, Start, K, Step, BOp)
    IN  IF failed /= "none" /\ G.build = "assert"
        THEN [ret |-> "abort", D |-> EmptyD, failed |-> failed]
        ELSE [ret |-> "true",
              D |-> [StartValue |-> Start, IK |-> K, Step |-> Step,
                     InductionBinOp |-> BOp, RedundantCasts |-> Casts],
              failed |-> failed]

NoInduction == [ret |-> "false", D |-> EmptyD, failed |-> "none"]
Aborted(why) == [ret |-> "abort", D |-> EmptyD, failed |-> why]

\* dyn_cast<BinaryOperator>(V)
AsBinaryOperator(G, V) == IF IsInst(G, V) /\ isBinaryOp(G, V) THEN V ELSE Null

\* an addend taken from either side of an fsub as well
FPAddendEitherSide(G, P, BOp) ==
    IF Op(G, BOp) \notin {"FAdd", "FSub"} THEN Null
    ELSE IF Operand(G, BOp, 1) = P THEN Operand(G, BOp, 2)
    ELSE IF Operand(G, BOp, 2) = P THEN Operand(G, BOp, 1)
    ELSE Null

\* the Addend of isFPInductionPHI: the other operand of an fadd of Phi, or
\* what is subtracted from Phi
FPAddend(G, P, BOp) ==
    IF Op(G, BOp) = "FAdd"
    THEN IF Operand(G, BOp, 1) = P THEN Operand(G, BOp, 2)
         ELSE IF Operand(G, BOp, 2) = P THEN Operand(G, BOp, 1)
         ELSE Null
    ELSE IF Op(G, BOp) = "FSub" /\ Operand(G, BOp, 1) = P
    THEN Operand(G, BOp, 2)
    ELSE Null

isFPInductionPHI(G, P) ==
    IF G.header /= Parent(G, P) THEN NoInduction
    ELSE IF Len(Operands(G, P)) /= 2 THEN NoInduction
    ELSE
    LET In0 == G.ins[P].inblk[1] \in LoopBlocks
        In1 == G.ins[P].inblk[2] \in LoopBlocks
        BEValue == IF In0 THEN Operand(G, P, 1) ELSE Operand(G, P, 2)
        StartValue == IF In0 THEN Operand(G, P, 2) ELSE Operand(G, P, 1)
        BOp == AsBinaryOperator(G, BEValue)
        Addend == IF BOp = Null THEN Null ELSE FPAddend(G, P, BOp)
    IN  IF ~In0 /\ ~In1 /\ G.build = "assert"
        THEN Aborted("Unexpected Phi node in the loop")
        ELSE IF BOp = Null THEN NoInduction
        ELSE IF Addend = Null THEN NoInduction
        ELSE IF IsInst(G, Addend) /\ LoopContains(G, Addend) THEN NoInduction
        ELSE InductionDescriptor(G, StartValue, "FpInduction",
                 SCEVUnknown(Addend, TypeOf(G, Addend)), BOp, <<>>)

\* the overload that is handed the ScalarEvolution and the expression Expr;
\* HasExpr: Expr is not null (it is then the add recurrence of the caller)
isInductionPHI_SE(G, P, pse, HasExpr, CastsToIgnore) ==
    LET PhiTy == TypeOf(G, P)
        AR == HasExpr \/ pse.PhiScev = "AddRec"
        StartValue == IncomingOrUB(G, P, G.preheader)
        BEValue == IncomingOrUB(G, P, G.latch)
        BOp == AsBinaryOperator(G, BEValue)
        Step == pse.Step
        ConstStep == Step.kind = "Constant"
        Size == PhiTy.w
        CVSize == getSExtValue(Step.value, Step.ty.w)
    IN  IF PhiTy.k /= "int" /\ PhiTy.k /= "ptr" THEN NoInduction
        ELSE IF ~AR THEN NoInduction
        ELSE IF pse.ARLoop /= "TheLoop" THEN NoInduction
        ELSE IF StartValue = Abort THEN Aborted("Invalid basic block argument!")
        ELSE IF G.latch = "none" THEN NoInduction
        ELSE IF BEValue = Abort THEN Aborted("Invalid basic block argument!")
        ELSE IF ~ConstStep /\ ~pse.StepInvariant THEN NoInduction
        ELSE IF PhiTy.k = "int"
        THEN InductionDescriptor(G, StartValue, "IntInduction", Step, BOp,
                                 CastsToIgnore)
        ELSE IF ~ConstStep THEN NoInduction
        ELSE IF Size < 0 THEN NoInduction
        ELSE IF Size = 0 THEN NoInduction
        ELSE IF SRem(CVSize, Size) /= 0 THEN NoInduction
        ELSE InductionDescriptor(G, StartValue, "PtrInduction",
                 SCEVConstant(getConstant(SDiv(CVSize, Size), Step.ty.w)),
                 BOp, <<>>)

\* the lambda getDef of getCastsForInductionPHI
getDef(G, Val) ==
    IF AsBinaryOperator(G, Val) = Null THEN Null
    ELSE IF ~LoopContains(G, Operand(G, Val, 1)) THEN Operand(G, Val, 2)
    ELSE IF ~LoopContains(G, Operand(G, Val, 2)) THEN Operand(G, Val, 1)
    ELSE Null

\* the locals of isInductionPHI and of getCastsForInductionPHI
IndIdle ==
    [pc |-> "idle", ret |-> "none", Val |-> Null, InCastSequence |-> FALSE,
     CastInsts |-> <<>>, HasCasts |-> FALSE, D |-> EmptyD,
     failed |-> "none"]

IndFinish(f, r) ==
    [f EXCEPT !.pc = "done", !.ret = r.ret, !.D = r.D, !.failed = r.failed]

\* getCastsForInductionPHI has returned Found: go on to the call of the
\* overload, with or without the casts
CastsReturn(f, Found) == [f EXCEPT !.pc = "classify", !.HasCasts = Found]

\* getCastsForInductionPHI from its entry to the first test of the while loop
CastsEnter(G, P, f) ==
    IF G.latch = "none" THEN CastsReturn(f, FALSE)
    ELSE LET Val == IncomingOrUB(G, P, G.latch)
         IN  IF Val = Abort
             THEN IndFinish(f, Aborted("Invalid basic block argument!"))
             ELSE IF Val = Null THEN CastsReturn(f, FALSE)
             ELSE IF Val = P THEN CastsReturn(f, FALSE)
             ELSE [f EXCEPT !.pc = "casts", !.Val = Val]

\* isInductionPHI(Phi, TheLoop, PSE, D, Assume) up to the calls it makes
IndEnter(G, P, pse) ==
    LET PhiTy == TypeOf(G, P)
        IsAR == pse.PhiScev = "AddRec"
        AR == IsAR \/ (pse.Assume /\ pse.AsAddRec)
    IN  IF PhiTy.k /= "int" /\ PhiTy.k /= "ptr" /\
           ~(PhiTy.k = "fp" /\ PhiTy.w \in {16, 32, 64})
        THEN IndFinish(IndIdle, NoInduction)
        ELSE IF PhiTy.k = "fp"
        THEN IndFinish(IndIdle, isFPInductionPHI(G, P))
        ELSE IF ~AR THEN IndFinish(IndIdle, NoInduction)
        ELSE IF ~IsAR /\ pse.PhiScev = "Unknown"
        THEN CastsEnter(G, P, IndIdle)
        ELSE CastsReturn(IndIdle, FALSE)

\* variant without the test of the uses of the recorded instructions
CastsIterAnyUses(G, P, pse, f) ==
    LET Val == f.Val
        InCast == f.InCastSequence \/ Val \in pse.EqualAR
        CastInsts == IF InCast THEN Append(f.CastInsts, Val) ELSE f.CastInsts
        Def == getDef(G, Val)
    IN  IF ~IsInst(G, Val) \/ ~LoopContains(G, Val)
        THEN CastsReturn(f, FALSE)
        ELSE IF Def = Null
        THEN CastsReturn([f EXCEPT !.InCastSequence = InCast,
                                   !.CastInsts = CastInsts], FALSE)
        ELSE IF Def = P
        THEN CastsReturn([f EXCEPT !.Val = Def, !.InCastSequence = InCast,
                                   !.CastInsts = CastInsts], InCast)
        ELSE [f EXCEPT !.Val = Def, !.InCastSequence = InCast,
                       !.CastInsts = CastInsts]

\* one iteration of the while loop of getCastsForInductionPHI, with the test
\* of the loop that follows it
CastsIter(G, P, pse, f) ==
    LET Val == f.Val
        InCast == f.InCastSequence \/ Val \in pse.EqualAR
        CastInsts == IF InCast THEN Append(f.CastInsts, Val) ELSE f.CastInsts
        Def == getDef(G, Val)
    IN  IF ~IsInst(G, Val) \/ ~LoopContains(G, Val)
        THEN CastsReturn(f, FALSE)
        ELSE IF InCast /\ f.CastInsts /= <<>> /\ ~hasOneUse(G, Val)
        THEN CastsReturn([f EXCEPT !.InCastSequence = InCast], FALSE)
        ELSE IF Def = Null
        THEN CastsReturn([f EXCEPT !.InCastSequence = InCast,
                                   !.CastInsts = CastInsts], FALSE)
        ELSE IF Def = P
        THEN CastsReturn([f EXCEPT !.Val = Def, !.InCastSequence = InCast,
                                   !.CastInsts = CastInsts], InCast)
        ELSE [f EXCEPT !.Val = Def, !.InCastSequence = InCast,
                       !.CastInsts = CastInsts]

\* return isInductionPHI(Phi, TheLoop, PSE.getSE(), D, AR[, &Casts])
IndClassify(G, P, pse, f) ==
    IndFinish(f, isInductionPHI_SE(G, P, pse, TRUE,
                     IF f.HasCasts THEN f.CastInsts ELSE <<>>))

IND_Enter ==
    /\ ind.pc = "idle"
    /\ ind' = IndEnter(g, Phi, PSE)
    /\ D' = IF ind'.ret = "true" THEN ind'.D ELSE D
    /\ UNCHANGED <<g, Phi, redVars, forVars, PSE, utilVars>>

IND_CastsIter ==
    /\ ind.pc = "casts"
    /\ ind' = CastsIter(g, Phi, PSE, ind)
    /\ UNCHANGED <<g, Phi, redVars, forVars, D, PSE, utilVars>>

IND_Classify ==
    /\ ind.pc = "classify"
    /\ ind' = IndClassify(g, Phi, PSE, ind)
    /\ D' = IF ind'.ret = "true" THEN ind'.D ELSE D
    /\ UNCHANGED <<g, Phi, redVars, forVars, PSE, utilVars>>

---------------------------------------------------------------------------
(* Loops handed to the induction classifier: the merge node (1), up to two
   masks of it, the update operation and, if the update adds a value that
   is computed in the loop, the load of that value.  The value over the
   backedge is the update, the load, an argument, an instruction in front
   of the loop or a second merge node. *)

\* the incoming values and blocks of the merge node for each loop shape
IndPhi(c, back) ==
    CASE c.loop = "canonical" ->
           MkPhi(Pair(c.pswap, StartV, back),
                 Pair(c.pswap, "preheader", "header"), c.phiBlk, c.ty)
      [] c.loop = "twoLatches" ->
           MkPhi(<<StartV, back, back>>, <<"preheader", "latch", "body">>,
                 c.phiBlk, c.ty)
      [] c.loop = "noPreheader" ->
           MkPhi(<<StartV, back>>, <<"entry", "header">>, c.phiBlk, c.ty)

IndGraph(c) ==
    LET upd == c.casts + 2
        other == CASE c.addend = "load" -> upd + 1 [] c.addend = "phi" -> 1
                   [] OTHER -> ArgX
        far == upd + (IF c.addend = "load" THEN 1 ELSE 0) +
                     (IF c.extra THEN 1 ELSE 0) + 1
        back == CASE c.back = "update" -> upd [] c.back = "load" -> upd + 1
                  [] c.back \in {"outside", "phi2"} -> far
                  [] OTHER -> ArgX
        beyond == CASE c.back = "outside" ->
                         <<MkInst("Add", <<ArgX, ArgX>>, "preheader", c.ty)>>
                    [] c.back = "phi2" ->
                         <<MkPhi(<<StartV, ArgX>>, <<"preheader", "header">>,
                                 "header", c.ty)>>
                    [] OTHER -> <<>>
        masks == [i \in 1..c.casts |->
                    MkInst("And", <<i, ConstInt(Pow2(PhiBits - i) - 1)>>,
                           "header", c.ty)]
        update == [MkInst(c.op, Pair(c.side, upd - 1, other), "header",
                          c.ty) EXCEPT !.fmf = AllFMF]
        load == IF c.addend = "load"
                THEN <<[MkInst("Load", <<ArgX>>, "header", c.ty)
                           EXCEPT !.eff = "read"]>>
                ELSE <<>>
        exit == IF c.extra THEN <<MkExit(2, c.ty)>> ELSE <<>>
    IN  [MkLoop(<<IndPhi(c, back)>> \o masks \o <<update>> \o load \o exit
                    \o beyond,
                FALSE, {},
                IF c.loop = "twoLatches" THEN "none" ELSE "header")
            EXCEPT !.preheader = IF c.loop = "noPreheader" THEN "none"
                                 ELSE "preheader",
                   !.build = c.build]

IndChoice(ty, op, side, casts, addend, back, extra, loop, pswap, phiBlk,
          build) ==
    [ty |-> ty, op |-> op, side |-> side, casts |-> casts,
     addend |-> addend, back |-> back, extra |-> extra, loop |-> loop,
     pswap |-> pswap, phiBlk |-> phiBlk, build |-> build]

\* the pointee sizes of the pointer merge nodes: not sized, 0 and up
PointeeSizes == {-1, 0, 1, 2, 3, 4}
FPWidths == {16, 32, 64, 128}

\* a loop without a preheader is analysed by every build; the builds do not
\* differ on the other loops
Shapes(loops) ==
    {<<l, "assert">> : l \in loops} \cup
    {<<l, b>> : l \in loops \cap {"noPreheader"}, b \in {"null", "junk"}}

\* back = "load": the merge node carries the loaded value of the iteration
\* before, and the update is a consumer of the merge node
IntChoices(loops) ==
    { IndChoice(IntTy(PhiBits), op, side, casts, ab[1], ab[2], extra,
                sh[1], FALSE, "header", sh[2]) :
        op \in {"Add", "Sub"}, side \in BOOLEAN, casts \in 0..2,
        ab \in {<<"inv", "update">>, <<"load", "update">>,
                <<"load", "load">>, <<"inv", "arg">>, <<"inv", "outside">>,
                <<"inv", "phi2">>},
        extra \in BOOLEAN, sh \in Shapes(loops) }

PtrChoices(loops) ==
    { IndChoice(PtrTy(Z), "GetElementPtr", FALSE, 0, "inv", "update", extra,
                sh[1], FALSE, "header", sh[2]) :
        Z \in PointeeSizes, extra \in BOOLEAN, sh \in Shapes(loops) }

FPChoices(loops) ==
    { IndChoice(FPTy(w), op, side, 0, addend, back, FALSE, sh[1], pswap,
                phiBlk, sh[2]) :
        w \in FPWidths, op \in {"FAdd", "FSub", "FMul", "Call"},
        side \in BOOLEAN, addend \in {"inv", "load", "phi"},
        back \in {"update", "arg"}, pswap \in BOOLEAN,
        phiBlk \in {"header", "body"}, sh \in Shapes(loops) }

VecChoices(loops) ==
    { IndChoice(VecTy, "Add", side, 0, "inv", "update", FALSE, sh[1], FALSE,
                "header", sh[2]) :
        side \in BOOLEAN, sh \in Shapes(loops) }

IndChoices(loops) ==
    IntChoices(loops) \cup PtrChoices(loops) \cup FPChoices(loops) \cup
    VecChoices(loops)

\* the steps the engine may report: constants of both signs as the bits of
\* a PhiBits wide integer (never zero: an add recurrence with a zero step is
\* folded to its start), and an expression that is no constant
StepValues ==
    {getConstant(v, PhiBits) : v \in {-8, -4, -3, -2, -1, 1, 2, 3, 4, 8}}

NoPSE ==
    [Assume |-> FALSE, PhiScev |-> "Other", AsAddRec |-> FALSE,
     ARLoop |-> "TheLoop", Step |-> NoSCEV, StepInvariant |-> FALSE,
     EqualAR |-> {}]

\* what the engine may answer about the merge node of G.  The questions the
\* classifier does not get to ask have one answer only.
PSEChoices(G) ==
    IF TypeOf(G, 1).k \notin {"int", "ptr"} THEN {NoPSE}
    ELSE
    LET Steps == {<<SCEVConstant(s), TRUE>> : s \in StepValues} \cup
                 {<<SCEVMulExpr, inv>> : inv \in BOOLEAN}
        Chain == {v \in 2..Len(G.ins) : LoopContains(G, v) /\
                                       Op(G, v) /= "Load"}
    IN  { [Assume |-> a, PhiScev |-> "AddRec", AsAddRec |-> FALSE,
           ARLoop |-> l, Step |-> s[1], StepInvariant |-> s[2],
           EqualAR |-> {}] :
            a \in BOOLEAN, l \in {"TheLoop", "Outer"}, s \in Steps } \cup
        { [Assume |-> TRUE, PhiScev |-> k, AsAddRec |-> TRUE,
           ARLoop |-> "TheLoop", Step |-> s[1], StepInvariant |-> s[2],
           EqualAR |-> IF k = "Unknown" THEN e ELSE {}] :
            k \in {"Unknown", "Other"}, s \in Steps, e \in SUBSET Chain } \cup
        { [NoPSE EXCEPT !.Assume = a, !.PhiScev = k, !.AsAddRec = ~a] :
            a \in BOOLEAN, k \in {"Unknown", "Other"} }

---------------------------------------------------------------------------
(* RecurrenceDescriptor::getRecurrenceIdentity, getOpcode and
   getReductionOpChain *)

\* Constants.  An integer constant is given by its bits, a floating-point
\* constant by its sign and its magnitude; FPInf is the magnitude of an
\* infinity.
FPInf == 99
\* ConstantInt::get(Tp, V) keeps the low bits of V (the types of the model
\* are not wider than the 64 bits of V)
ConstantIntGet(Tp, V) == [neg |-> FALSE, mag |-> V % Pow2(Tp.w)]
ConstantFPGet(neg, mag) == [neg |-> neg, mag |-> mag]
\* ConstantFP::getInfinity(Tp, Negative)
getInfinity(Negative) == ConstantFPGet(Negative, FPInf)
getSignedMaxValue(w) == Pow2(w - 1) - 1
getSignedMinValue(w) == Pow2(w - 1)

\* the answer to a kind that has no case is not defined
getRecurrenceIdentity(K, Tp, FMF) ==
    CASE K \in {"Xor", "Add", "Or"} -> ConstantIntGet(Tp, 0)
      [] K = "Mul" -> ConstantIntGet(Tp, 1)
      [] K = "And" -> ConstantIntGet(Tp, -1)
      [] K = "FMul" -> ConstantFPGet(FALSE, 1)
      [] K = "FAdd" -> IF "nsz" \in FMF THEN ConstantFPGet(FALSE, 0)
                       ELSE ConstantFPGet(TRUE, 0)
      [] K = "UMin" -> ConstantIntGet(Tp, -1)
      [] K = "UMax" -> ConstantIntGet(Tp, 0)
      [] K = "SMin" -> ConstantIntGet(Tp, getSignedMaxValue(Tp.w))
      [] K = "SMax" -> ConstantIntGet(Tp, getSignedMinValue(Tp.w))
      [] K = "FMin" -> getInfinity(TRUE)
      [] K = "FMax" -> getInfinity(FALSE)

IdnIdle ==
    [pc |-> "idle", K |-> None, Tp |-> NullTy, FMF |-> {},
     ret |-> [neg |-> FALSE, mag |-> 0]]

IDN_Call ==
    /\ idn.pc = "call"
    /\ idn' = [idn EXCEPT !.pc = "done",
                          !.ret = getRecurrenceIdentity(idn.K, idn.Tp,
                                                        idn.FMF)]
    /\ UNCHANGED <<g, Phi, redVars, forVars, indVars, roc, first>>

getOpcode(Kind) ==
    CASE Kind \in {"Add", "Mul", "Or", "And", "Xor", "FMul", "FAdd"} -> Kind
      [] Kind \in {"SMax", "SMin", "UMax", "UMin"} -> "ICmp"
      [] Kind \in {"FMax", "FMin"} -> "FCmp"

\* SelectPatternResult::isMinOrMax(matchSelectPattern(Cur, LHS, RHS).Flavor):
\* a select between the two operands of its compare, the compare being an
\* ordering; a floating-point compare must exclude NaNs and ignore the sign
\* of zero
isMinOrMaxSelect(G, Cur) ==
    /\ \E flavor \in {"UMin", "UMax", "SMax", "SMin", "OrdFMin", "OrdFMax",
                      "UnordFMin", "UnordFMax"} : MaxMin_match(G, Cur, flavor)
    /\ isaFCmp(G, Operand(G, Cur, 1)) =>
          {"nnan", "nsz"} \subseteq getFastMathFlags(G, Operand(G, Cur, 1))

IsCmpOpcode(RedOp) == RedOp = "ICmp" \/ RedOp = "FCmp"

\* the lambda that also takes a sub for an add
isCorrectOpcodeOrSub(G, RedOp, Cur) ==
    IF IsCmpOpcode(RedOp) THEN isMinOrMaxSelect(G, Cur)
    ELSE Op(G, Cur) = RedOp \/ (RedOp = "Add" /\ Op(G, Cur) = "Sub")

\* the lambdas isCorrectOpcode and getNextInstruction, and Cur->hasNUses(N)
isCorrectOpcode(G, RedOp, Cur) ==
    IF IsCmpOpcode(RedOp) THEN isMinOrMaxSelect(G, Cur)
    ELSE Op(G, Cur) = RedOp

getNextInstruction(G, RedOp, Cur) ==
    IF IsCmpOpcode(RedOp)
    THEN IF isaSelect(G, Users(G, Cur)[1]) THEN Users(G, Cur)[1]
         ELSE Users(G, Cur)[2]
    ELSE Users(G, Cur)[1]

hasNUses(G, v, N) == Len(Users(G, v)) = N

RocIdle ==
    [pc |-> "idle", Cur |-> Null, ReductionOperations |-> <<>>,
     ret |-> <<>>]

\* return {} and return ReductionOperations
RocReturn(f, ops) == [f EXCEPT !.pc = "done", !.ret = ops]

\* from the entry of the function to the first test of the while loop
RocEnter(G, P, RD) ==
    LET RedOp == getOpcode(RD.Kind)
        ExpectedUses == IF IsCmpOpcode(RedOp) THEN 2 ELSE 1
    IN  IF ~isCorrectOpcode(G, RedOp, RD.LoopExitInstr) \/
           ~hasNUses(G, RD.LoopExitInstr, 2)
        THEN RocReturn(RocIdle, <<>>)
        ELSE IF ~hasNUses(G, P, ExpectedUses) THEN RocReturn(RocIdle, <<>>)
        ELSE [RocIdle EXCEPT !.pc = "loop",
                             !.Cur = getNextInstruction(G, RedOp, P)]

\* the test of the while loop and one iteration of it
RocIter(G, RD, f) ==
    LET RedOp == getOpcode(RD.Kind)
        ExpectedUses == IF IsCmpOpcode(RedOp) THEN 2 ELSE 1
    IN  IF f.Cur = RD.LoopExitInstr
        THEN RocReturn([f EXCEPT !.ReductionOperations = Append(@, f.Cur)],
                       Append(f.ReductionOperations, f.Cur))
        ELSE IF ~isCorrectOpcode(G, RedOp, f.Cur) \/
                ~hasNUses(G, f.Cur, ExpectedUses)
        THEN RocReturn(f, <<>>)
        ELSE [f EXCEPT !.ReductionOperations = Append(@, f.Cur),
                       !.Cur = getNextInstruction(G, RedOp, f.Cur)]

ROC_Enter ==
    /\ roc.pc = "idle"
    /\ roc' = RocEnter(g, Phi, RedDes)
    /\ UNCHANGED <<g, Phi, redVars, forVars, indVars, idn, first>>

ROC_Iter ==
    /\ roc.pc = "loop"
    /\ roc' = RocIter(g, RedDes, roc)
    /\ UNCHANGED <<g, Phi, redVars, forVars, indVars, idn, first>>

NoFirst == [ret |-> "none", des |-> EmptyRedDes]

IndUnused == ind = IndIdle /\ D = EmptyD /\ PSE = NoPSE
UtilUnused == roc = RocIdle /\ idn = IdnIdle /\ first = NoFirst

---------------------------------------------------------------------------
(* The reduction matcher as a state machine *)


\* an entry that looks at the descriptor it is handed before it starts
ARV_EnterStale ==
    /\ arv.pc = "idle"
    /\ phiRet = "none"
    /\ arv' = IF RedDes /= EmptyRedDes THEN ReturnFalse(ArvIdle)
              ELSE ArvEnter(g, Phi, Kind0)
    /\ UNCHANGED <<g, Phi, Kind0, RedDes, oracle, kindIdx, phiRet, forVars,
                   indVars, utilVars>>

ARV_Enter ==
    /\ arv.pc = "idle"
    /\ phiRet = "none"
    /\ arv' = ArvEnter(g, Phi, Kind0)
    /\ UNCHANGED <<g, Phi, Kind0, RedDes, oracle, kindIdx, phiRet, forVars, indVars, utilVars>>

ARV_Iter ==
    /\ arv.pc = "loop"
    /\ arv.Worklist /= <<>>
    /\ arv' = ArvIter(g, Phi, arv)
    /\ UNCHANGED <<g, Phi, Kind0, RedDes, oracle, kindIdx, phiRet, forVars, indVars, utilVars>>

\* an exit that saves the description whatever it returns
ARV_ExitSavesAlways ==
    /\ arv.pc = "loop"
    /\ arv.Worklist = <<>>
    /\ \E o \in (IF ~(TraversalSucceeded(arv) /\ arv.Start /= Phi)
                    \/ oracle.asked
                 THEN {oracle} ELSE OracleAnswers) :
          /\ arv' = ArvExit(g, Phi, arv, o)
          /\ oracle' = o
    /\ RedDes' = MakeRedDes(arv')
    /\ UNCHANGED <<g, Phi, Kind0, kindIdx, phiRet, forVars, indVars, utilVars>>

ARV_Exit ==
    /\ arv.pc = "loop"
    /\ arv.Worklist = <<>>
    /\ \E o \in (IF ~(TraversalSucceeded(arv) /\ arv.Start /= Phi)
                    \/ oracle.asked
                 THEN {oracle} ELSE OracleAnswers) :
          /\ arv' = ArvExit(g, Phi, arv, o)
          /\ oracle' = o
    /\ RedDes' = IF arv'.ret = "true" THEN MakeRedDes(arv') ELSE RedDes
    /\ UNCHANGED <<g, Phi, Kind0, kindIdx, phiRet, forVars, indVars, utilVars>>

Init ==
    /\ g \in ReductionGraphs
    /\ Phi = 1
    /\ Kind0 \in RecurKinds
    /\ arv = ArvIdle
    /\ RedDes = EmptyRedDes
    /\ oracle = NoOracle
    /\ kindIdx = 0
    /\ phiRet = "none"
    /\ fr = FrIdle
    /\ SinkAfter = <<>>
    /\ called = {}
    /\ IndUnused
    /\ UtilUnused

Next == ARV_Enter \/ ARV_Iter \/ ARV_Exit

Spec == Init /\ [][Next]_vars

\* the whole call as a function of its arguments and of the oracles' answers
RECURSIVE ArvLoop(_, _, _, _)
ArvLoop(G, P, f, o) ==
    IF f.pc /= "loop" THEN f
    ELSE IF f.Worklist = <<>> THEN ArvExit(G, P, f, o)
    ELSE ArvLoop(G, P, ArvIter(G, P, f), o)

AddReductionVar(G, P, Kind, o) == ArvLoop(G, P, ArvEnter(G, P, Kind), o)

---------------------------------------------------------------------------
(* RecurrenceDescriptor::isReductionPHI: the kinds in the order tried *)

\* the kinds with the first two exchanged: not the order of the source
KindOrderMulFirst ==
    <<"Mul", "Add", "Or", "And", "Xor", "SMax", "SMin", "UMax", "UMin",
      "FMul", "FAdd", "FMax", "FMin">>

KindOrder ==
    <<"Add", "Mul", "Or", "And", "Xor", "SMax", "SMin", "UMax", "UMin",
      "FMul", "FAdd", "FMax", "FMin">>

\* AddReductionVar returned false: go on to the next if statement
PHI_NextKind ==
    /\ phiRet = "none"
    /\ kindIdx >= 1
    /\ arv.pc = "done" /\ arv.ret = "false"
    /\ kindIdx < Len(KindOrder)
    /\ kindIdx' = kindIdx + 1
    /\ Kind0' = KindOrder[kindIdx + 1]
    /\ arv' = ArvIdle
    /\ UNCHANGED <<g, Phi, RedDes, oracle, phiRet, forVars, indVars, utilVars>>

\* return true after a successful call, false after the last failed one
PHI_Return ==
    /\ phiRet = "none"
    /\ kindIdx >= 1
    /\ arv.pc = "done"
    /\ arv.ret \in {"true", "abort"} \/ kindIdx = Len(KindOrder)
    /\ phiRet' = arv.ret
    /\ UNCHANGED <<g, Phi, Kind0, arv, RedDes, oracle, kindIdx, forVars, indVars, utilVars>>

InitProbe ==
    /\ g \in ReductionGraphs
    /\ Phi = 1
    /\ kindIdx = 1
    /\ Kind0 = KindOrder[1]
    /\ arv = ArvIdle
    /\ RedDes = EmptyRedDes
    /\ oracle = NoOracle
    /\ phiRet = "none"
    /\ fr = FrIdle
    /\ SinkAfter = <<>>
    /\ called = {}
    /\ IndUnused
    /\ UtilUnused

NextProbe == ARV_Enter \/ ARV_Iter \/ ARV_Exit \/ PHI_NextKind \/ PHI_Return

SpecProbe == InitProbe /\ [][NextProbe]_vars

---------------------------------------------------------------------------
(* The sinker called once for each merge node of the header, in any order *)

InitFOR ==
    /\ \E n \in 1..MaxUsers :
          \E body \in Bodies(n), backA \in BacksA(n), backB \in BacksB(n),
             rev \in BOOLEAN :
              g = ForGraph(body, backA, backB, rev)
    /\ Phi = 1
    /\ Kind0 = None
    /\ arv = ArvIdle
    /\ RedDes = EmptyRedDes
    /\ oracle = NoOracle
    /\ kindIdx = 0
    /\ phiRet = "none"
    /\ fr = FrIdle
    /\ SinkAfter = <<>>
    /\ called = {}
    /\ IndUnused
    /\ UtilUnused

NextFOR == FOR_Enter \/ FOR_Iter \/ FOR_Commit \/ FOR_Return

SpecFOR == InitFOR /\ [][NextFOR]_vars

---------------------------------------------------------------------------
(* The induction classifier called on a loop that has a preheader *)

InitInd ==
    /\ \E c \in IndChoices({"canonical", "twoLatches"}) : g = IndGraph(c)
    /\ Phi = 1
    /\ Kind0 = None
    /\ arv = ArvIdle
    /\ RedDes = EmptyRedDes
    /\ oracle = NoOracle
    /\ kindIdx = 0
    /\ phiRet = "none"
    /\ fr = FrIdle
    /\ SinkAfter = <<>>
    /\ called = {}
    /\ ind = IndIdle
    /\ D = EmptyD
    /\ PSE \in PSEChoices(g)
    /\ UtilUnused

NextInd == IND_Enter \/ IND_CastsIter \/ IND_Classify

SpecInd == InitInd /\ [][NextInd]_vars

---------------------------------------------------------------------------
(* getReductionOpChain called on a descriptor of any kind whose exit
   instruction is an instruction of the loop other than the merge node *)

InitChain ==
    /\ g \in ReductionGraphs
    /\ Phi = 1
    /\ \E K \in RecurKinds, e \in 2..Len(g.ins) :
          /\ LoopContains(g, e)
          /\ RedDes = [EmptyRedDes EXCEPT !.Kind = K, !.LoopExitInstr = e,
                                          !.StartValue = StartV,
                                          !.RecurrenceType = TypeOf(g, 1)]
    /\ Kind0 = None
    /\ arv = ArvIdle
    /\ oracle = NoOracle
    /\ kindIdx = 0
    /\ phiRet = "none"
    /\ fr = FrIdle
    /\ SinkAfter = <<>>
    /\ called = {}
    /\ IndUnused
    /\ UtilUnused

NextChain == ROC_Enter \/ ROC_Iter

SpecChain == InitChain /\ [][NextChain]_vars

---------------------------------------------------------------------------
(* getRecurrenceIdentity called for a kind and a type of its class *)

InitIdentity ==
    /\ g = MkGraph(<<HeaderPhi(ArgX, IntTy(PhiBits))>>, FALSE, {})
    /\ Phi = 1
    /\ Kind0 = None
    /\ arv = ArvIdle
    /\ RedDes = EmptyRedDes
    /\ oracle = NoOracle
    /\ kindIdx = 0
    /\ phiRet = "none"
    /\ fr = FrIdle
    /\ SinkAfter = <<>>
    /\ called = {}
    /\ IndUnused
    /\ roc = RocIdle
    /\ first = NoFirst
    /\ \/ \E K \in IntKinds, w \in 1..PhiBits :
             idn = [IdnIdle EXCEPT !.pc = "call", !.K = K, !.Tp = IntTy(w)]
       \/ \E K \in FPKinds, F \in SUBSET {"nnan", "nsz"} :
             idn = [IdnIdle EXCEPT !.pc = "call", !.K = K, !.Tp = FloatTy,
                                   !.FMF = F]

SpecIdentity == InitIdentity /\ [][IDN_Call]_vars

---------------------------------------------------------------------------
(* Every entry point, called on loops of every shape, and called a second
   time with the same arguments once the first call has returned *)

\* the locals of a function that is not called
Off(f) == [f EXCEPT !.pc = "off"]

ARV_Again ==
    /\ kindIdx = 0
    /\ arv.pc = "done" /\ arv.ret /= "abort"
    /\ first = NoFirst
    /\ first' = [ret |-> arv.ret, des |-> RedDes]
    /\ arv' = ArvIdle
    /\ UNCHANGED <<g, Phi, Kind0, RedDes, oracle, kindIdx, phiRet, forVars,
                   indVars, roc, idn>>

PHI_Again ==
    /\ phiRet \notin {"none", "abort"}
    /\ first = NoFirst
    /\ first' = [ret |-> phiRet, des |-> RedDes]
    /\ phiRet' = "none"
    /\ kindIdx' = 1
    /\ Kind0' = KindOrder[1]
    /\ arv' = ArvIdle
    /\ UNCHANGED <<g, Phi, RedDes, oracle, forVars, indVars, roc, idn>>

IND_Again ==
    /\ ind.pc = "done" /\ ind.ret /= "abort"
    /\ first = NoFirst
    /\ first' = [ret |-> ind.ret, des |-> D]
    /\ ind' = IndIdle
    /\ UNCHANGED <<g, Phi, redVars, forVars, D, PSE, roc, idn>>

\* the loops and the answers of the engine for this specification: every
\* shape of loop and every build, with fewer variants of the loop body
EntryChoices ==
    {c \in IndChoices({"canonical", "twoLatches", "noPreheader"}) :
        /\ ~c.pswap /\ c.phiBlk = "header" /\ ~c.extra
        /\ c.casts /= 1 /\ c.back \in {"update", "load"}
        /\ c.ty.k = "int" => ~c.side
        /\ c.ty.w \in {PhiBits, -1, 4, 32}}

\* reductions whose narrowing the oracles are asked about, and conditional
\* ones
EntryReductions ==
    {NarrowGraph(n, "Add", FALSE, FALSE, cb, FALSE) :
        n \in 1..PhiBits, cb \in {0, 2}} \cup
    {CondGraph(op, AllFMF, FALSE, sswap, FALSE) :
        op \in {"FAdd", "FSub"}, sswap \in BOOLEAN}

EntryPSE(G) ==
    LET Chain == UNION {p.EqualAR : p \in PSEChoices(G)}
    IN  {p \in PSEChoices(G) :
            /\ p.Step.value \in {getConstant(-4, PhiBits), 2, Null}
            /\ p.EqualAR \in {{}, Chain}}

InitAll ==
    /\ Phi = 1
    /\ RedDes = EmptyRedDes
    /\ oracle = NoOracle
    /\ phiRet = "none"
    /\ SinkAfter = <<>>
    /\ called = {}
    /\ D = EmptyD
    /\ UtilUnused
    /\ \/ \E c \in EntryChoices : g = IndGraph(c)
       \/ g \in EntryReductions
    /\ \/ /\ Kind0 \in RecurKinds /\ kindIdx = 0
          /\ arv = ArvIdle /\ fr = Off(FrIdle) /\ ind = Off(IndIdle)
          /\ PSE = NoPSE
       \/ /\ Kind0 = KindOrder[1] /\ kindIdx = 1
          /\ arv = ArvIdle /\ fr = Off(FrIdle) /\ ind = Off(IndIdle)
          /\ PSE = NoPSE
       \/ /\ Kind0 = None /\ kindIdx = 0
          /\ arv = Off(ArvIdle) /\ fr = FrIdle /\ ind = Off(IndIdle)
          /\ PSE = NoPSE
       \/ /\ Kind0 = None /\ kindIdx = 0
          /\ arv = Off(ArvIdle) /\ fr = Off(FrIdle) /\ ind = IndIdle
          /\ PSE \in EntryPSE(g)

NextAll ==
    \/ ARV_Enter \/ ARV_Iter \/ ARV_Exit \/ ARV_Again
    \/ PHI_NextKind \/ PHI_Return \/ PHI_Again
    \/ FOR_Enter \/ FOR_Iter \/ FOR_Commit \/ FOR_Return
    \/ IND_Enter \/ IND_CastsIter \/ IND_Classify \/ IND_Again

SpecAll == InitAll /\ [][NextAll]_vars

---------------------------------------------------------------------------
(* The matcher, the prober and the induction classifier called with an
   output descriptor that is empty or holds the result of an earlier call
   on another loop; first.des is the caller's copy of what it hands in *)

StaleRedDes ==
    [EmptyRedDes EXCEPT !.StartValue = ArgX, !.LoopExitInstr = 2,
                        !.Kind = "Xor", !.RecurrenceType = IntTy(PhiBits)]

StaleD ==
    [EmptyD EXCEPT !.StartValue = ArgX, !.IK = "IntInduction",
                   !.Step = SCEVConstant(getConstant(1, PhiBits)),
                   !.InductionBinOp = 2]

FrameChoices == {c \in EntryChoices : c.loop /= "noPreheader"}

InitFrame ==
    /\ Phi = 1
    /\ oracle = NoOracle
    /\ phiRet = "none"
    /\ SinkAfter = <<>>
    /\ called = {}
    /\ fr = Off(FrIdle)
    /\ roc = RocIdle /\ idn = IdnIdle
    /\ \/ \E c \in FrameChoices : g = IndGraph(c)
       \/ g \in EntryReductions
    /\ \/ /\ Kind0 \in RecurKinds /\ kindIdx = 0
          /\ arv = ArvIdle /\ ind = Off(IndIdle)
          /\ PSE = NoPSE /\ D = EmptyD
          /\ RedDes \in {EmptyRedDes, StaleRedDes}
          /\ first = [ret |-> "none", des |-> RedDes]
       \/ /\ Kind0 = KindOrder[1] /\ kindIdx = 1
          /\ arv = ArvIdle /\ ind = Off(IndIdle)
          /\ PSE = NoPSE /\ D = EmptyD
          /\ RedDes \in {EmptyRedDes, StaleRedDes}
          /\ first = [ret |-> "none", des |-> RedDes]
       \/ /\ Kind0 = None /\ kindIdx = 0
          /\ arv = Off(ArvIdle) /\ ind = IndIdle
          /\ PSE \in EntryPSE(g) /\ RedDes = EmptyRedDes
          /\ D \in {EmptyD, StaleD}
          /\ first = [ret |-> "none", des |-> D]

NextFrame ==
    \/ ARV_Enter \/ ARV_Iter \/ ARV_Exit
    \/ PHI_NextKind \/ PHI_Return
    \/ IND_Enter \/ IND_CastsIter \/ IND_Classify

SpecFrame == InitFrame /\ [][NextFrame]_vars

---------------------------------------------------------------------------
(* The two worklist traversals, each run to its end: the reduction matcher
   on the loops with inner merge nodes, where an instruction is met again
   after it was visited, the sinker on the merge nodes of the header one
   after the other *)

TraversalGraphs == InnerPhiGraphs \cup DiamondGraphs \cup BusySelectGraphs

InitTraversals ==
    /\ Phi = 1
    /\ RedDes = EmptyRedDes
    /\ oracle = NoOracle
    /\ kindIdx = 0
    /\ phiRet = "none"
    /\ SinkAfter = <<>>
    /\ called = {}
    /\ IndUnused
    /\ UtilUnused
    /\ \/ /\ g \in TraversalGraphs
          /\ Kind0 \in RecurKinds
          /\ arv = ArvIdle /\ fr = Off(FrIdle)
       \/ /\ \E n \in 1..(MaxUsers - 1) :
                \E body \in Bodies(n), backA \in BacksA(n),
                   backB \in {ArgX, BodyId(n)} :
                    g = ForGraph(body, backA, backB, FALSE)
          /\ Kind0 = None
          /\ arv = Off(ArvIdle) /\ fr = FrIdle

NextTraversals ==
    \/ ARV_Enter \/ ARV_Iter \/ ARV_Exit
    \/ FOR_Enter \/ FOR_Iter \/ FOR_Commit \/ FOR_Return

\* a call that has started goes on until it returns, and the caller of the
\* sinker goes on to the next merge node
SpecTraversals ==
    InitTraversals /\ [][NextTraversals]_vars /\ WF_vars(NextTraversals)

---------------------------------------------------------------------------
(* Properties *)

\* the order of the kinds as the claim lists it
ClaimedKinds ==
    <<"Add", "Mul", "Or", "And", "Xor", "SMax", "SMin", "UMax", "UMin",
      "FMul", "FAdd", "FMax", "FMin">>

\* AddReductionVar on the current loop with candidate kind K
Attempt(K) == AddReductionVar(g, Phi, K, oracle)
Matches(K) == Attempt(K).ret = "true"

\* C1: isReductionPHI tries the kinds Add, Mul, Or, And, Xor, SMax, SMin,
\* UMax, UMin, FMul, FAdd, FMax, FMin in that order; when it returns true
\* the descriptor is the one of the first kind that matches, and it returns
\* false exactly when all 13 attempts fail.
C1_FirstMatchingKind ==
    /\ kindIdx \in 1..Len(ClaimedKinds)
    /\ Kind0 = ClaimedKinds[kindIdx]
    /\ phiRet = "true" =>
          /\ Matches(Kind0)
          /\ \A i \in 1..(kindIdx - 1) : ~Matches(ClaimedKinds[i])
          /\ RedDes = MakeRedDes(Attempt(Kind0))
    /\ phiRet = "false" =>
          /\ \A i \in 1..Len(ClaimedKinds) : ~Matches(ClaimedKinds[i])
          /\ RedDes = EmptyRedDes
    /\ (phiRet /= "none" /\
        \A i \in 1..Len(ClaimedKinds) : ~Matches(ClaimedKinds[i]))
          => phiRet = "false"

\* isReductionPHI returned true for a kind that is not the first one tried
C1_Witness == phiRet = "true" /\ kindIdx > 1

\* the instructions reachable from the merge node through in-loop users
RECURSIVE ChainFrom(_, _)
ChainFrom(G, S) ==
    LET more == {u \in 1..NumInsts(G) :
                    /\ LoopContains(G, u)
                    /\ \E v \in S : SeqContains(Operands(G, u), v)}
    IN  IF more \subseteq S THEN S ELSE ChainFrom(G, S \cup more)

Escapes(G, v) ==
    \E u \in 1..NumInsts(G) :
        ~LoopContains(G, u) /\ SeqContains(Operands(G, u), v)

\* C2: AddReductionVar returns a descriptor only if the merge node was
\* re-reached as a user of a visited instruction, a reduction operation (a
\* processed instruction that is neither a merge node nor the start node)
\* was found, an exit instruction was identified and, for a min/max kind,
\* exactly two compare/select instructions were counted.
C2_SuccessConditions ==
    arv.ret = "true" =>
        /\ arv.FoundStartPHI
        /\ \E v \in arv.VisitedInsts : SeqContains(Operands(g, Phi), v)
        /\ arv.FoundReduxOp
        /\ \E v \in arv.VisitedInsts : ~isaPHI(g, v) /\ v /= arv.Start
        /\ arv.ExitInstruction /= Null
        /\ Escapes(g, arv.ExitInstruction)
        /\ isMinMaxRecurrenceKind(arv.Kind) =>
              /\ arv.NumCmpSelectPatternInst = 2
              /\ Cardinality({v \in arv.VisitedInsts :
                                 isaCmp(g, v) \/ isaSelect(g, v)}) = 2

\* a min/max reduction was accepted
C2_Witness ==
    arv.ret = "true" /\ isMinMaxRecurrenceKind(arv.Kind) /\ RedDes /= EmptyRedDes

\* C3: in a successful match the exit instruction is the only instruction
\* of the traversed chain with a user outside the loop, it is not the merge
\* node and it is an operand of the merge node; so a chain with two escaping
\* instructions, an escaping merge node or an escaping instruction that
\* does not feed the merge node is rejected.
C3_SingleExit ==
    /\ arv.ret = "true" =>
          /\ arv.VisitedInsts = ChainFrom(g, {Phi})
          /\ \A v \in arv.VisitedInsts :
                Escapes(g, v) <=> v = RedDes.LoopExitInstr
          /\ RedDes.LoopExitInstr /= Phi
          /\ \E i \in 1..Len(Operands(g, Phi)) :
                Operand(g, Phi, i) = RedDes.LoopExitInstr
    /\ (arv.pc = "done" /\
        \/ Cardinality({v \in ChainFrom(g, {Phi}) : Escapes(g, v)}) >= 2
        \/ Escapes(g, Phi)
        \/ \E v \in ChainFrom(g, {Phi}) :
              Escapes(g, v) /\ ~SeqContains(Operands(g, Phi), v))
          => arv.ret = "false" /\ RedDes = EmptyRedDes

\* a chain of two operations whose last one escapes was accepted
C3_Witness ==
    /\ arv.ret = "true"
    /\ Cardinality(arv.VisitedInsts) >= 3
    /\ RedDes.LoopExitInstr = Operand(g, Phi, 2)

\* What a compare and the select on it compute, found by evaluating them on
\* sample values: 2-bit integers, read as signed or unsigned, and the same
\* four values as numbers for floating point (none of them a NaN).
Samples == {0, 1, 2, 3}
AsSigned(x) == IF x >= 2 THEN x - 4 ELSE x

CmpHolds(pred, a, b) ==
    CASE pred \in {"ICMP_EQ", "FCMP_OEQ", "FCMP_UEQ"} -> a = b
      [] pred \in {"ICMP_NE", "FCMP_ONE", "FCMP_UNE"} -> a /= b
      [] pred \in {"ICMP_UGT", "FCMP_OGT", "FCMP_UGT"} -> a > b
      [] pred \in {"ICMP_UGE", "FCMP_OGE", "FCMP_UGE"} -> a >= b
      [] pred \in {"ICMP_ULT", "FCMP_OLT", "FCMP_ULT"} -> a < b
      [] pred \in {"ICMP_ULE", "FCMP_OLE", "FCMP_ULE"} -> a <= b
      [] pred = "ICMP_SGT" -> AsSigned(a) > AsSigned(b)
      [] pred = "ICMP_SGE" -> AsSigned(a) >= AsSigned(b)
      [] pred = "ICMP_SLT" -> AsSigned(a) < AsSigned(b)
      [] pred = "ICMP_SLE" -> AsSigned(a) <= AsSigned(b)

KindValue(K, a, b) ==
    CASE K \in {"UMax", "FMax"} -> IF a >= b THEN a ELSE b
      [] K \in {"UMin", "FMin"} -> IF a <= b THEN a ELSE b
      [] K = "SMax" -> IF AsSigned(a) >= AsSigned(b) THEN a ELSE b
      [] K = "SMin" -> IF AsSigned(a) <= AsSigned(b) THEN a ELSE b

\* the value over the backedge of the merge node
BackValue(G, P) == getIncomingValueForBlock(G, P, G.latch)

\* sel is select(cmp(a, b), a, b) or select(cmp(a, b), b, a)
IsSelectOfCmp(G, sel) ==
    /\ IsInst(G, sel) /\ isaSelect(G, sel)
    /\ IsInst(G, Operand(G, sel, 1)) /\ isaCmp(G, Operand(G, sel, 1))
    /\ LET Cmp == Operand(G, sel, 1)
       IN  /\ Operand(G, Cmp, 1) /= Operand(G, Cmp, 2)
           /\ {Operand(G, sel, 2), Operand(G, sel, 3)} =
              {Operand(G, Cmp, 1), Operand(G, Cmp, 2)}

SelectValue(G, sel, a, b) ==
    LET Cmp == Operand(G, sel, 1)
        val(o) == IF o = Operand(G, Cmp, 1) THEN a ELSE b
    IN  IF CmpHolds(G.ins[Cmp].pred, a, b) THEN val(Operand(G, sel, 2))
        ELSE val(Operand(G, sel, 3))

\* the min/max kinds the select computes on all samples (at most one)
SelectFlavours(G, sel) ==
    {K \in (IF TypeOf(G, sel).k = "int"
            THEN {"SMax", "SMin", "UMax", "UMin"} ELSE {"FMax", "FMin"}) :
        \A a \in Samples, b \in Samples :
            SelectValue(G, sel, a, b) = KindValue(K, a, b)}

\* the operation of an arithmetic or logical kind
KindOp(K) ==
    CASE K = "Add" -> "Add" [] K = "Mul" -> "Mul" [] K = "Or" -> "Or"
      [] K = "And" -> "And" [] K = "Xor" -> "Xor" [] K = "FAdd" -> "FAdd"
      [] K = "FMul" -> "FMul" [] OTHER -> "none"

\* the loop holds exactly the canonical idiom of K: the merge node
\* phi(start, op), the operation op_K(merge node, x) -- for a min/max kind a
\* compare of the two and the select on it -- and one user of op outside
CanonicalIdiom(G, P, K) ==
    LET n == NumInsts(G)
        op == n - 1
    IN  /\ n \in {3, 4}
        /\ Operands(G, P) = <<StartV, op>>
        /\ G.ins[P].inblk = <<G.preheader, G.latch>>
        /\ G.ins[n] = MkExit(op, TypeOf(G, P))
        /\ TypeOf(G, op) = TypeOf(G, P)
        /\ Parent(G, op) = G.header
        /\ IF K \in {"Add", "Mul", "Or", "And", "Xor", "FAdd", "FMul"}
           THEN /\ n = 3
                /\ Op(G, op) = KindOp(K)
                /\ Operands(G, op) \in {<<P, ArgX>>, <<ArgX, P>>}
                /\ isIntegerRecurrenceKind(K) <=> TypeOf(G, P).k = "int"
           ELSE /\ n = 4
                /\ IsSelectOfCmp(G, op)
                /\ Operand(G, op, 1) = 2
                /\ {Operand(G, 2, 1), Operand(G, 2, 2)} = {P, ArgX}
                /\ K \in SelectFlavours(G, op)

CanonicalKinds(G, P) == {K \in RecurKinds : CanonicalIdiom(G, P, K)}

ClassifiedAs(K) ==
    /\ phiRet = "true"
    /\ RedDes.Kind = K
    /\ RedDes.LoopExitInstr = BackValue(g, Phi)
    /\ RedDes.StartValue = StartV
    /\ Matches(K)

\* C4 as stated: the canonical idiom of every kind K is classified with kind
\* K, the operation as exit instruction and start as start value.
C4_CanonicalIdiomClassified ==
    phiRet /= "none" =>
        \A K \in CanonicalKinds(g, Phi) : ClassifiedAs(K)

\* C4, amended: the canonical idiom of every kind K is classified with kind
\* K, the operation as exit instruction and start as start value; for FMax
\* and FMin this holds when the function has the no-NaNs and the
\* no-signed-zeros attribute, and without them the idiom is not a reduction.
C4_CanonicalIdiomWithFlags ==
    phiRet /= "none" =>
        \A K \in CanonicalKinds(g, Phi) :
            IF isFPMinMaxRecurrenceKind(K) /\
               ~({"nnan", "nsz"} \subseteq g.fnFMF)
            THEN phiRet = "false" /\ RedDes = EmptyRedDes
            ELSE ClassifiedAs(K)

\* the canonical idiom of a kind tried late was classified
C4_Witness ==
    /\ phiRet = "true"
    /\ CanonicalKinds(g, Phi) = {"FMin"}
    /\ RedDes.Kind = "FMin"

\* the same loop with every use list in the opposite order
Reversed(G) == [G EXCEPT !.rev = ~G.rev]

\* the min/max candidates that can be tried on a merge node of this type
MinMaxCandidates(G, P) ==
    IF TypeOf(G, P).k = "int" THEN {"SMax", "SMin", "UMax", "UMin"}
    ELSE {"FMax", "FMin"}

\* C5: when the merge node is fed by select(cmp(a, b), a, b), a match under
\* a min/max candidate reports the flavour the select computes, whichever
\* min/max kind is the candidate and whichever of the compare and the select
\* is processed first, and it succeeds only with exactly one compare and one
\* select counted.
C5_MinMaxFlavour ==
    (/\ arv.pc = "done"
     /\ Kind0 \in MinMaxCandidates(g, Phi)
     /\ IsSelectOfCmp(g, BackValue(g, Phi))) =>
        /\ arv.ret = "true" =>
              /\ SelectFlavours(g, BackValue(g, Phi)) = {RedDes.Kind}
              /\ arv.NumCmpSelectPatternInst = 2
              /\ Cardinality({v \in arv.VisitedInsts : isaCmp(g, v)}) = 1
              /\ Cardinality({v \in arv.VisitedInsts : isaSelect(g, v)}) = 1
        /\ \A K \in MinMaxCandidates(g, Phi) :
              /\ Attempt(K).ret = arv.ret
              /\ AddReductionVar(Reversed(g), Phi, K, oracle).ret = arv.ret
              /\ arv.ret = "true" =>
                    /\ Attempt(K).Kind = RedDes.Kind
                    /\ AddReductionVar(Reversed(g), Phi, K, oracle).Kind =
                       RedDes.Kind
        /\ (arv.NumCmpSelectPatternInst /= 2 /\ arv.Worklist = <<>>)
              => arv.ret = "false"

\* an unsigned minimum was found with a signed maximum as the candidate
C5_Witness ==
    /\ arv.ret = "true"
    /\ Kind0 = "SMax"
    /\ RedDes.Kind = "UMin"
    /\ IsSelectOfCmp(g, BackValue(g, Phi))

\* the merge node's single use is an and with the constant 2^n - 1
MaskedBy(G, P, n) ==
    /\ Cardinality({u \in 1..NumInsts(G) :
                       SeqContains(Operands(G, u), P)}) = 1
    /\ LET J == CHOOSE u \in 1..NumInsts(G) : SeqContains(Operands(G, u), P)
       IN  /\ Op(G, J) = "And"
           /\ CountIn(Operands(G, J), P) = 1
           /\ \E i \in 1..2 : Operand(G, J, i) = ConstInt(Pow2(n) - 1)

TheAnd(G, P) == CHOOSE u \in 1..NumInsts(G) : SeqContains(Operands(G, u), P)

\* the width recomputed for the exit instruction from the oracles' answers:
\* the demanded bits, else the bits that are not sign bits, plus one when
\* the sign is unknown, rounded up to a power of two
RoundUpPow2(m) == CHOOSE p \in {Pow2(k) : k \in 0..(PhiBits + 1)} :
                      p >= m /\ \A q \in {Pow2(k) : k \in 0..(PhiBits + 1)} :
                                    q >= m => p <= q
RecomputedWidth(o) ==
    LET d == IF o.hasDB THEN o.demanded ELSE PhiBits
        m == IF d = PhiBits /\ o.hasACDT
             THEN (PhiBits - o.signBits) +
                  (IF o.known = "unknown" THEN 1 ELSE 0)
             ELSE d
    IN  RoundUpPow2(m)

\* C6: an Add or Mul reduction whose merge node's single use is an and with
\* the mask 2^n - 1 is reported with the n-bit type and with the and in its
\* cast set, and whenever the width recomputed for the exit instruction
\* differs from n the match fails and reports nothing.
C6_NarrowingRoundTrip ==
    \A n \in 1..PhiBits :
        (arv.pc = "done" /\ Kind0 \in {"Add", "Mul"} /\ MaskedBy(g, Phi, n))
        =>
        /\ arv.ret = "true" =>
              /\ RedDes.RecurrenceType = IntTy(n)
              /\ TheAnd(g, Phi) \in RedDes.CastInsts
              /\ RedDes.Kind = Kind0
              /\ oracle.asked /\ RecomputedWidth(oracle) = n
        /\ (oracle.asked /\ RecomputedWidth(oracle) /= n) =>
              arv.ret = "false" /\ RedDes = EmptyRedDes

\* a reduction was narrowed to four bits
C6_Witness ==
    /\ arv.ret = "true"
    /\ MaskedBy(g, Phi, 4)
    /\ RedDes.RecurrenceType = IntTy(4)
    /\ oracle.asked

\* C7: the ordered flag of the descriptor is true exactly when the final
\* kind is FAdd, the exit instruction is an fadd and is the recorded
\* exact-fp-math instruction, and the merge node is one of its two operands;
\* a chain whose operations all allow reassociation is not ordered.
C7_OrderedFlag ==
    arv.ret = "true" =>
        LET Exit == RedDes.LoopExitInstr
        IN  /\ RedDes.IsOrdered <=>
                  /\ RedDes.Kind = "FAdd"
                  /\ Op(g, Exit) = "FAdd"
                  /\ RedDes.ExactFPMathInst = Exit
                  /\ Phi \in {Operand(g, Exit, 1), Operand(g, Exit, 2)}
            /\ (\A v \in arv.VisitedInsts :
                    Op(g, v) \in {"FAdd", "FSub"} =>
                        "reassoc" \in g.ins[v].fmf)
                  => ~RedDes.IsOrdered

\* a strict fadd on the merge node was reported as an ordered reduction
C7_Witness ==
    /\ arv.ret = "true"
    /\ RedDes.IsOrdered
    /\ Op(g, RedDes.LoopExitInstr) = "FAdd"

\* C8: whenever isFirstOrderRecurrence returns no-match, on a failed
\* precondition or on a rejected candidate, SinkAfter is what it was before
\* the call: SinkAfter changes in no step of a call but the one that
\* returns true.
C8_NoMatchLeavesSinkAfter ==
    [][fr'.ret /= "true" => SinkAfter' = SinkAfter]_vars

\* a call failed after it had tentatively sunk an instruction, with entries
\* of an earlier call in SinkAfter
C8_Witness ==
    /\ fr.pc = "done" /\ fr.ret = "false"
    /\ fr.InstrsToSink /= <<>>
    /\ SinkAfter /= <<>>

\* the elements of a sequence of instructions in program order
SinkSet(s) == {s[i] : i \in 1..Len(s)}
InProgramOrder(S) == SortedSeq(S)

\* C9: on success the tentatively sunk instructions are committed in
\* program order whatever the order of their discovery: the earliest one is
\* mapped to the value the latch supplies, every later one to the sunk
\* instruction before it, and these are the entries added to SinkAfter.
C9_CommittedInProgramOrder ==
    (fr.pc = "done" /\ fr.ret = "true") =>
        LET order == InProgramOrder(SinkSet(fr.InstrsToSink))
            n == Len(order)
        IN  /\ Len(SinkAfter) >= n
            /\ \A i \in 1..n :
                  /\ SinkAfter[Len(SinkAfter) - n + i] =
                        <<order[i], IF i = 1 THEN BackValue(g, Phi)
                                    ELSE order[i - 1]>>
                  /\ Parent(g, order[i]) = Parent(g, Phi)
                  /\ i > 1 => comesBefore(order[i - 1], order[i])
            /\ Cardinality(MapKeys(SinkAfter)) = Len(SinkAfter)

\* two consumers of the merge node were sunk, the later one discovered first
C9_Witness ==
    /\ fr.pc = "done" /\ fr.ret = "true"
    /\ g.rev
    /\ Len(fr.InstrsToSink) >= 2
    /\ \A i \in 1..2 : SeqContains(Operands(g, fr.InstrsToSink[i]), Phi)

\* the direct and transitive consumers of a merge node within an iteration:
\* its users and the users of a consumer that is not itself a merge node
RECURSIVE ConsumersFrom(_, _, _)
ConsumersFrom(G, P, S) ==
    LET from == {P} \cup {x \in S : ~isaPHI(G, x)}
        more == {u \in 1..NumInsts(G) :
                    \E v \in from : SeqContains(Operands(G, u), v)}
    IN  IF more \subseteq S THEN S ELSE ConsumersFrom(G, P, S \cup more)

Consumers(G, P) == ConsumersFrom(G, P, {})

CannotMove(G, P, c) ==
    \/ mayReadFromMemory(G, c) \/ mayHaveSideEffects(G, c)
    \/ isTerminator(G, c) \/ Parent(G, c) /= Parent(G, P)

\* C10 as stated: if any direct or transitive consumer of the merge node
\* reads memory, has side effects, is a terminator or lies outside the merge
\* node's block, the attempt fails.
C10_AnyBadConsumerFails ==
    (fr.pc = "done" /\ \E c \in Consumers(g, Phi) : CannotMove(g, Phi, c))
        => fr.ret = "false"

\* the consumers that have to be moved: the users of the merge node, and of
\* an instruction that has to be moved, that the latch value does not
\* dominate
RECURSIVE ToMove(_, _, _, _)
ToMove(G, P, Prev, S) ==
    LET from == {P} \cup {x \in S : ~isaPHI(G, x)}
        more == {u \in 1..NumInsts(G) :
                    /\ \E v \in from : SeqContains(Operands(G, u), v)
                    /\ ~dominates(G, Prev, u)}
    IN  IF more \subseteq S THEN S ELSE ToMove(G, P, Prev, S \cup more)

ConsumersToMove(G, P) ==
    IF IsInst(G, BackValue(G, P)) THEN ToMove(G, P, BackValue(G, P), {})
    ELSE {}

\* C10, amended: if any consumer that has to be moved -- a user of the merge
\* node, or of an instruction that has to be moved, that the latch value does
\* not already dominate -- reads memory, has side effects, is a terminator
\* or lies outside the merge node's block, the attempt fails.
C10_BadConsumerToMoveFails ==
    (fr.pc = "done" /\
     \E c \in ConsumersToMove(g, Phi) : CannotMove(g, Phi, c))
        => fr.ret = "false"

\* a load among consumers that could otherwise be sunk made the call fail
C10_Witness ==
    /\ fr.pc = "done" /\ fr.ret = "false"
    /\ fr.InstrsToSink /= <<>>
    /\ \E c \in ConsumersToMove(g, Phi) : mayReadFromMemory(g, c)
    /\ \A c \in ConsumersToMove(g, Phi) :
          c /= BackValue(g, Phi) /\ ~mayHaveSideEffects(g, c) /\
          ~isTerminator(g, c) /\ Parent(g, c) = Parent(g, Phi)

---------------------------------------------------------------------------
(* The induction classifier: pointer steps *)

\* the classifier got as far as looking at the step of an add recurrence of
\* the loop
ReachedStep ==
    /\ ind.pc = "done"
    /\ PSE.PhiScev = "AddRec" \/ (PSE.Assume /\ PSE.AsAddRec)
    /\ PSE.ARLoop = "TheLoop"
    /\ g.latch /= "none"

\* the signed number that a constant of PhiBits bits stands for
SignedOf(bits) ==
    CHOOSE s \in -Pow2(PhiBits - 1)..(Pow2(PhiBits - 1) - 1) :
        (s - bits) % Pow2(PhiBits) = 0

\* S is a whole number of elements of Z bytes
Strides(S, Z) == {q \in -Pow2(PhiBits - 1)..Pow2(PhiBits - 1) : q * Z = S}

\* C11: for a pointer merge node whose add recurrence has the constant byte
\* step S and whose pointee has the storage size Z, the classifier fails
\* when the pointee is not sized, when Z is 0 or when S is no multiple of Z,
\* and otherwise answers a Ptr induction whose step is the signed element
\* stride S / Z; a step that is no constant always fails for a pointer.
C11_PointerStride ==
    (ReachedStep /\ TypeOf(g, Phi).k = "ptr") =>
        LET Z == TypeOf(g, Phi).w
            S == SignedOf(PSE.Step.value)
        IN  IF PSE.Step.kind /= "Constant" THEN ind.ret = "false"
            ELSE IF Z <= 0 \/ Strides(S, Z) = {} THEN ind.ret = "false"
            ELSE /\ ind.ret = "true"
                 /\ D.IK = "PtrInduction"
                 /\ D.Step.kind = "Constant"
                 /\ SignedOf(D.Step.value) \in Strides(S, Z)

\* a step of -8 bytes over elements of 4 bytes is the stride -2
C11_Witness ==
    /\ ReachedStep /\ TypeOf(g, Phi) = PtrTy(4)
    /\ PSE.Step.kind = "Constant" /\ SignedOf(PSE.Step.value) = -8
    /\ ind.ret = "true" /\ D.IK = "PtrInduction"
    /\ SignedOf(D.Step.value) = -2

\* a negative step that is no multiple of the element size is refused
C11_WitnessFails ==
    /\ ReachedStep /\ TypeOf(g, Phi) = PtrTy(2)
    /\ PSE.Step.kind = "Constant" /\ SignedOf(PSE.Step.value) = -3
    /\ ind.ret = "false"

---------------------------------------------------------------------------
(* The induction classifier: floating-point merge nodes *)

\* the merge node is a half, a float or a double: the types that are handed
\* to isFPInductionPHI
OnFPPath == TypeOf(g, Phi).k = "fp" /\ TypeOf(g, Phi).w \in {16, 32, 64}

\* the positions of the incoming values that come from inside and from
\* outside the loop
FromLoop(G, P) ==
    {i \in 1..Len(G.ins[P].inblk) : G.ins[P].inblk[i] \in LoopBlocks}
FromOutside(G, P) == (1..Len(G.ins[P].inblk)) \ FromLoop(G, P)

Invariant(G, v) == ~LoopContains(G, v)

\* b is an update of P by an invariant: fadd either way round, fsub from P
FPUpdates(G, P, b) ==
    {i \in {1, 2} :
        /\ IsInst(G, b) /\ Op(G, b) \in {"FAdd", "FSub"}
        /\ Operand(G, b, i) = P
        /\ Op(G, b) = "FSub" => i = 1
        /\ Invariant(G, Operand(G, b, 3 - i))}

FPInductionShape(G, P) ==
    /\ Parent(G, P) = G.header
    /\ Len(Operands(G, P)) = 2
    /\ \E k \in FromLoop(G, P) : FPUpdates(G, P, Operand(G, P, k)) /= {}

\* C12: the floating-point path succeeds exactly when the merge node is in
\* the header, has two incoming edges and its backedge value is an fadd with
\* the merge node on either side, or an fsub with it on the left, whose other
\* operand is invariant; the descriptor then has the kind Fp, the value from
\* outside the loop as start, the invariant operand as an unknown-form step
\* and the fadd or fsub as its update operator.
C12_FPInduction ==
    (ind.pc = "done" /\ OnFPPath) =>
        /\ ind.ret \in {"true", "false"}
        /\ ind.ret = "true" <=> FPInductionShape(g, Phi)
        /\ ind.ret = "true" =>
              \E k \in FromLoop(g, Phi), o \in FromOutside(g, Phi) :
                 LET b == Operand(g, Phi, k)
                 IN  /\ D.IK = "FpInduction"
                     /\ D.StartValue = Operand(g, Phi, o)
                     /\ D.InductionBinOp = b
                     /\ \E i \in FPUpdates(g, Phi, b) :
                           /\ D.Step.kind = "Unknown"
                           /\ D.Step.value = Operand(g, b, 3 - i)

\* x = x + inv with the merge node on the right of the fadd is an induction
C12_Witness ==
    /\ ind.pc = "done" /\ OnFPPath /\ ind.ret = "true"
    /\ Op(g, D.InductionBinOp) = "FAdd"
    /\ Operand(g, D.InductionBinOp, 2) = Phi
    /\ D.Step.value = ArgX

\* x = inv - x is refused
C12_WitnessFSub ==
    /\ ind.pc = "done" /\ OnFPPath /\ ind.ret = "false"
    /\ FromLoop(g, Phi) /= {}
    /\ \E k \in FromLoop(g, Phi) :
          LET b == Operand(g, Phi, k)
          IN  IsInst(g, b) /\ Op(g, b) = "FSub" /\ Operand(g, b, 2) = Phi /\
              Operand(g, b, 1) = ArgX /\ Parent(g, Phi) = g.header

---------------------------------------------------------------------------
(* Calling an entry point twice *)

\* the second call of the entry point has returned
SecondDone ==
    /\ first /= NoFirst
    /\ \/ kindIdx = 0 /\ arv.pc = "done"
       \/ phiRet /= "none"
       \/ ind.pc = "done"

C13_WitnessProbe ==
    /\ SecondDone /\ phiRet = "true" /\ first.ret = "true" /\ kindIdx > 1

C13_WitnessInd ==
    /\ SecondDone /\ ind.pc = "done" /\ ind.ret = "true"
    /\ D.RedundantCasts /= <<>>

---------------------------------------------------------------------------
(* getReductionOpChain *)

IsCmpKind(K) == K \in {"SMax", "SMin", "UMax", "UMin", "FMax", "FMin"}

\* v has the operation that the kind K expects of the nodes of its chain:
\* the kind's own opcode, or a select that computes a minimum or a maximum
\* of the operands of its compare
ExpectedOp(G, K, v) ==
    IF IsCmpKind(K)
    THEN /\ IsSelectOfCmp(G, v)
         /\ SelectFlavours(G, v) /= {}
         /\ isaFCmp(G, Operand(G, v, 1)) =>
               {"nnan", "nsz"} \subseteq G.ins[Operand(G, v, 1)].fmf
    ELSE Op(G, v) = KindOp(K)

NumUses(G, v) ==
    LET uses == {<<u, i>> \in (1..NumInsts(G)) \X (1..3) :
                    i <= Len(Operands(G, u)) /\ Operand(G, u, i) = v}
    IN  Cardinality(uses)

ExpectedUses(K) == IF IsCmpKind(K) THEN 2 ELSE 1

\* the node passes the test of a node in front of the exit instruction
GoodLink(G, K, v) ==
    ExpectedOp(G, K, v) /\ NumUses(G, v) = ExpectedUses(K)

\* ops is a chain of users that starts at a user of P
ForwardChain(G, P, ops) ==
    /\ SeqContains(Operands(G, ops[1]), P)
    /\ \A i \in 1..(Len(ops) - 1) : SeqContains(Operands(G, ops[i + 1]), ops[i])

\* C14: getReductionOpChain returns the empty list if the exit instruction
\* has not the operation the kind expects or has not exactly two uses, if
\* the merge node has not the expected number of uses, or if a node in
\* front of the exit instruction fails one of the two tests; otherwise it
\* returns the chain of users from the merge node's consumer to the exit
\* instruction, which is its last element, without the merge node.
C14_ReductionOpChain ==
    roc.pc = "done" =>
        LET K == RedDes.Kind
            Exit == RedDes.LoopExitInstr
            ops == roc.ret
            Quick == /\ ExpectedOp(g, K, Exit) /\ NumUses(g, Exit) = 2
                     /\ NumUses(g, Phi) = ExpectedUses(K)
        IN  /\ ~Quick => ops = <<>>
            /\ (Quick /\ ops = <<>>) =>
                  /\ roc.Cur /= Exit /\ ~GoodLink(g, K, roc.Cur)
                  /\ ForwardChain(g, Phi,
                                  Append(roc.ReductionOperations, roc.Cur))
            /\ ops /= <<>> =>
                  /\ Quick
                  /\ ops[Len(ops)] = Exit
                  /\ ~SeqContains(ops, Phi)
                  /\ ForwardChain(g, Phi, ops)
                  /\ \A i \in 1..(Len(ops) - 1) :
                        GoodLink(g, K, ops[i]) /\ ops[i] /= Exit

\* a chain of two additions is returned in the order of the loop
C14_Witness ==
    /\ roc.pc = "done" /\ RedDes.Kind = "Add"
    /\ Len(roc.ret) = 2 /\ roc.ret[2] = RedDes.LoopExitInstr

\* a subtraction that is the exit instruction of an Add reduction
C14_WitnessSub ==
    /\ roc.pc = "done" /\ RedDes.Kind = "Add" /\ roc.ret = <<>>
    /\ Op(g, RedDes.LoopExitInstr) = "Sub"
    /\ NumUses(g, RedDes.LoopExitInstr) = 2 /\ NumUses(g, Phi) = 1

\* the selects of a min/max reduction
C14_WitnessMinMax ==
    /\ roc.pc = "done" /\ IsCmpKind(RedDes.Kind) /\ roc.ret /= <<>>

---------------------------------------------------------------------------
(* The descriptors the induction classifier builds *)

\* what the constructor expects of its arguments
ConstructionInvariants(G, d) ==
    /\ d.IK \in {"IntInduction", "PtrInduction", "FpInduction"}
    /\ d.StartValue /= Null
    /\ d.IK = "PtrInduction" => TypeOf(G, d.StartValue).k = "ptr"
    /\ d.IK = "IntInduction" => TypeOf(G, d.StartValue).k = "int"
    /\ d.Step.kind = "Constant" => d.Step.value % Pow2(d.Step.ty.w) /= 0
    /\ d.IK = "PtrInduction" => d.Step.kind = "Constant"
    /\ d.IK /= "FpInduction" => d.Step.ty.k = "int"
    /\ d.IK = "FpInduction" =>
          /\ d.Step.ty.k = "fp"
          /\ IsInst(G, d.InductionBinOp)
          /\ Op(G, d.InductionBinOp) \in {"FAdd", "FSub"}

C15_WitnessFp ==
    /\ ind.pc = "done" /\ ind.ret = "true" /\ D.IK = "FpInduction"
    /\ Op(g, D.InductionBinOp) = "FSub"

C15_WitnessInt ==
    /\ ind.pc = "done" /\ ind.ret = "true" /\ D.IK = "IntInduction"
    /\ D.Step.kind = "Mul" /\ D.RedundantCasts /= <<>>

---------------------------------------------------------------------------
(* Malformed input *)

\* the merge node has not two incoming edges, the loop has no preheader or
\* no single latch, or the merge node is of a type no entry point supports
Malformed(G, P) ==
    \/ Len(Operands(G, P)) /= 2
    \/ G.preheader = "none"
    \/ G.latch = "none"
    \/ TypeOf(G, P).k \notin {"int", "fp", "ptr"}

\* the entry point that was called has come to its end, with this outcome
Outcomes ==
    (IF kindIdx = 0 /\ arv.pc = "done" THEN {arv.ret} ELSE {}) \cup
    (IF phiRet /= "none" THEN {phiRet} ELSE {}) \cup
    (IF fr.pc = "done" THEN {fr.ret} ELSE {}) \cup
    (IF ind.pc = "done" THEN {ind.ret} ELSE {})

\* C16: every entry point answers malformed input -- a merge node that has
\* not two incoming edges, a loop without a preheader or without a single
\* latch, a merge node of an unsupported type -- with a plain no-match, and
\* never with a failed assertion or another outcome that does not return.
C16_MalformedIsNoMatch ==
    Malformed(g, Phi) => Outcomes \subseteq {"false"}

\* the reduction matcher reads the start value of a loop without a preheader
C16_AbortInMatcher ==
    /\ g.preheader = "none" /\ g.build = "assert"
    /\ kindIdx = 0 /\ arv.pc = "done" /\ arv.ret = "abort"

\* a build without assertions classifies the loop with whatever it has read
C16_JunkStart ==
    /\ g.preheader = "none" /\ g.build = "junk"
    /\ ind.pc = "done" /\ ind.ret = "true" /\ D.StartValue = Junk

---------------------------------------------------------------------------
(* getRecurrenceIdentity *)

\* the bits of a and b combined one by one, for numbers of w bits
RECURSIVE Bitwise(_, _, _, _)
Bitwise(f, a, b, w) ==
    IF w = 0 THEN 0
    ELSE (IF f = "Or" THEN (IF a % 2 = 1 \/ b % 2 = 1 THEN 1 ELSE 0)
          ELSE IF f = "And" THEN (IF a % 2 = 1 /\ b % 2 = 1 THEN 1 ELSE 0)
          ELSE (IF a % 2 /= b % 2 THEN 1 ELSE 0))
         + 2 * Bitwise(f, a \div 2, b \div 2, w - 1)

SignedW(x, w) == IF x >= Pow2(w - 1) THEN x - Pow2(w) ELSE x

\* the operation of an integer kind on two numbers of w bits
IntCombine(K, a, b, w) ==
    CASE K = "Add" -> (a + b) % Pow2(w)
      [] K = "Mul" -> (a * b) % Pow2(w)
      [] K \in {"Or", "And", "Xor"} -> Bitwise(K, a, b, w)
      [] K = "UMin" -> IF a <= b THEN a ELSE b
      [] K = "UMax" -> IF a >= b THEN a ELSE b
      [] K = "SMin" -> IF SignedW(a, w) <= SignedW(b, w) THEN a ELSE b
      [] K = "SMax" -> IF SignedW(a, w) >= SignedW(b, w) THEN a ELSE b

\* floating-point numbers: both zeros, small numbers and both infinities
FPSamples ==
    {ConstantFPGet(n, m) : n \in BOOLEAN, m \in {0, 1, 2, 3, FPInf}}

FPNumber(x) == IF x.neg THEN -x.mag ELSE x.mag

\* the operation of a floating-point kind on a sample and a constant that is
\* a zero, a one or an infinity
FPCombine(K, a, b) ==
    CASE K = "FAdd" ->
           IF a.mag = FPInf THEN a
           ELSE IF b.mag = FPInf THEN b
           ELSE IF FPNumber(a) + FPNumber(b) /= 0
           THEN ConstantFPGet(FPNumber(a) + FPNumber(b) < 0,
                              IF FPNumber(a) + FPNumber(b) < 0
                              THEN -(FPNumber(a) + FPNumber(b))
                              ELSE FPNumber(a) + FPNumber(b))
           ELSE ConstantFPGet(a.mag = 0 /\ b.mag = 0 /\ a.neg /\ b.neg, 0)
      [] K = "FMul" ->
           ConstantFPGet(a.neg /= b.neg,
                         IF FPInf \in {a.mag, b.mag} THEN FPInf
                         ELSE a.mag * b.mag)
      [] K = "FMin" -> IF FPNumber(a) <= FPNumber(b) THEN a ELSE b
      [] K = "FMax" -> IF FPNumber(a) >= FPNumber(b) THEN a ELSE b

\* equal numbers; the sign of a zero does not count when FMF has nsz
SameFP(a, b, FMF) ==
    \/ a = b
    \/ "nsz" \in FMF /\ a.mag = 0 /\ b.mag = 0

\* the constant is neutral for the kind on every value of the type
Neutral(K, Tp, FMF, c) ==
    IF K \in IntKinds
    THEN \A x \in 0..(Pow2(Tp.w) - 1) : IntCombine(K, x, c.mag, Tp.w) = x
    ELSE \A x \in FPSamples : SameFP(FPCombine(K, x, c), x, FMF)

\* C17: getRecurrenceIdentity(K, T, FMF) returns the neutral element of the
\* operation of the kind K: combined with it, every value x of the type T
\* stays x.
C17_IdentityIsNeutral ==
    idn.pc = "done" => Neutral(idn.K, idn.Tp, idn.FMF, idn.ret)

\* the same for the kinds other than the floating-point minimum and maximum
IdentityIsNeutralButFPMinMax ==
    (idn.pc = "done" /\ idn.K \notin {"FMin", "FMax"})
        => Neutral(idn.K, idn.Tp, idn.FMF, idn.ret)

\* the identity of FMin is the negative infinity, and min(1.0, -inf) is -inf
C17_FMinNotNeutral ==
    /\ idn.pc = "done" /\ idn.K = "FMin"
    /\ idn.ret = ConstantFPGet(TRUE, FPInf)
    /\ FPCombine("FMin", ConstantFPGet(FALSE, 1), idn.ret) /=
       ConstantFPGet(FALSE, 1)

---------------------------------------------------------------------------
(* The exact-fp-math instruction of a descriptor *)

\* the instructions the while loop of AddReductionVar takes from its
\* worklist, in the order in which it takes them
RECURSIVE Traversal(_, _, _)
Traversal(G, P, f) ==
    IF f.pc /= "loop" \/ f.Worklist = <<>> THEN <<>>
    ELSE <<f.Worklist[Len(f.Worklist)]>> \o Traversal(G, P, ArvIter(G, P, f))

\* a floating-point operation without the allow-reassociation flag
LacksReassoc(G, v) ==
    /\ Op(G, v) \in {"FAdd", "FSub", "FMul", "FDiv"}
    /\ "reassoc" \notin G.ins[v].fmf

\* the positions in the traversal of the operations that lack the flag
StrictAt(G, P, K) ==
    LET T == Traversal(G, P, ArvEnter(G, P, K))
    IN  {i \in 1..Len(T) : LacksReassoc(G, T[i])}

FirstStrict(G, P, K) ==
    LET T == Traversal(G, P, ArvEnter(G, P, K))
        S == StrictAt(G, P, K)
    IN  T[CHOOSE i \in S : \A j \in S : i <= j]

\* C18: the exact-fp-math instruction of a successful descriptor is the first
\* floating-point instruction of the traversal that lacks the
\* allow-reassociation flag: once one was met, the field is not null and
\* is that instruction, whatever is processed after it.
C18_ExactIsFirstStrict ==
    (arv.pc = "done" /\ arv.ret = "true" /\ StrictAt(g, Phi, Kind0) /= {})
        => RedDes.ExactFPMathInst = FirstStrict(g, Phi, Kind0)

\* what the code keeps is the field of the instruction it processed last
ExactIsOfLastProcessed ==
    (arv.pc = "done" /\ arv.ret = "true" /\ RedDes.ExactFPMathInst /= Null)
        => /\ LacksReassoc(g, RedDes.ExactFPMathInst)
           /\ LET T == Traversal(g, Phi, ArvEnter(g, Phi, Kind0))
              IN  \A i \in 1..Len(T) :
                     T[i] = RedDes.ExactFPMathInst =>
                        \A j \in (i + 1)..Len(T) :
                           Op(g, T[j]) \notin {"FAdd", "FSub", "FMul", "FDiv"}

\* a strict fadd followed by a reassociable one: the descriptor has no
\* exact-fp-math instruction
C18_LostAfterFastAdd ==
    /\ arv.pc = "done" /\ arv.ret = "true" /\ RedDes.Kind = "FAdd"
    /\ StrictAt(g, Phi, Kind0) /= {}
    /\ RedDes.ExactFPMathInst = Null
    /\ hasAllowReassoc(g, RedDes.LoopExitInstr)

\* two strict fadds: the descriptor names the second
C18_SecondStrictKept ==
    /\ arv.pc = "done" /\ arv.ret = "true" /\ RedDes.Kind = "FAdd"
    /\ Cardinality(StrictAt(g, Phi, Kind0)) = 2
    /\ RedDes.ExactFPMathInst /= Null
    /\ RedDes.ExactFPMathInst /= FirstStrict(g, Phi, Kind0)

---------------------------------------------------------------------------
(* The use counts of the reduction matcher *)

\* the visited nodes that have v as an operand
VisitedUsersOf(G, v, Visited) ==
    {u \in Visited : IsInst(G, u) /\ SeqContains(Operands(G, u), v)}

\* the operands of v, one for each position, that are visited nodes
VisitedOperandsOf(G, v, Visited) ==
    {i \in 1..Len(Operands(G, v)) : Operand(G, v, i) \in Visited}

\* the number of nodes or operands that the claim allows to the node v that
\* is processed under the kind K; -1: no limit
UseLimit(G, v, K) ==
    IF isaSelect(G, v) THEN (IF K \in {"FAdd", "FMul"} THEN 2 ELSE -1)
    ELSE IF isaPHI(G, v) \/ isMinMaxRecurrenceKind(K) THEN -1
    ELSE 1

InnerPhiIncomplete(G, P, v, Visited) ==
    /\ isaPHI(G, v) /\ v /= P
    /\ \E i \in 1..Len(Operands(G, v)) : Operand(G, v, i) \notin Visited

\* the steps of the while loop of a call: the node each step processes, the
\* nodes visited before it and the kind it is processed under
RECURSIVE Processed(_, _, _)
Processed(G, P, f) ==
    IF f.pc /= "loop" \/ f.Worklist = <<>> THEN <<>>
    ELSE <<[Cur |-> f.Worklist[Len(f.Worklist)],
            Visited |-> f.VisitedInsts,
            Kind |-> ArvIter(G, P, f).Kind]>> \o
         Processed(G, P, ArvIter(G, P, f))

StepsOfCall == Processed(g, Phi, ArvEnter(g, Phi, Kind0))

\* the merge node s.Cur, which is not the original one, has an operand that
\* is not visited
IncompletePhi(s) == InnerPhiIncomplete(g, Phi, s.Cur, s.Visited)

\* C19 as stated: a match fails if it processes a node that is an operand of
\* more already-visited nodes than its limit -- two for a select under FAdd
\* or FMul, one for a node that is no merge node, no select and not under a
\* min/max kind -- or a merge node other than the original one with an
\* operand that is not visited.
C19_LimitOnVisitedUsers ==
    (arv.pc = "done" /\
     \E i \in 1..Len(StepsOfCall) :
        LET s == StepsOfCall[i]
        IN  \/ /\ UseLimit(g, s.Cur, s.Kind) >= 0
               /\ Cardinality(VisitedUsersOf(g, s.Cur, s.Visited))
                     > UseLimit(g, s.Cur, s.Kind)
            \/ IncompletePhi(s))
        => arv.ret = "false"

\* the processed node with more visited operands than its limit
OverLimit(s) ==
    /\ UseLimit(g, s.Cur, s.Kind) >= 0
    /\ Cardinality(VisitedOperandsOf(g, s.Cur, s.Visited))
          > UseLimit(g, s.Cur, s.Kind)

\* C19, amended: the limits are on the operands of the processed node: a
\* match fails if it processes a select under FAdd or FMul with more than
\* two operands that are visited nodes, another node that is no merge node,
\* no select and not under a min/max kind with more than one such operand,
\* or a merge node other than the original one with an operand that is not
\* visited.
C19_LimitOnVisitedOperands ==
    (arv.pc = "done" /\
     \E i \in 1..Len(StepsOfCall) :
        OverLimit(StepsOfCall[i]) \/ IncompletePhi(StepsOfCall[i]))
        => arv.ret = "false"

\* a node with two visited operands made the match fail
C19_Witness ==
    /\ arv.pc = "done" /\ arv.ret = "false"
    /\ \E i \in 1..Len(StepsOfCall) :
          /\ OverLimit(StepsOfCall[i])
          /\ \A j \in 1..(i - 1) :
                ~OverLimit(StepsOfCall[j]) /\ ~IncompletePhi(StepsOfCall[j])

\* a successful match that has processed a node that two merge nodes
\* visited before it have as their operand
C19_WitnessTwoUsers ==
    /\ arv.pc = "done" /\ arv.ret = "true"
    /\ \E i \in 1..Len(StepsOfCall) :
          LET s == StepsOfCall[i]
          IN  /\ Op(g, s.Cur) = "Add" /\ s.Kind = "Add"
              /\ Cardinality(VisitedUsersOf(g, s.Cur, s.Visited)) = 2
              /\ Cardinality(VisitedOperandsOf(g, s.Cur, s.Visited)) = 1

\* a merge node with an operand that is not visited made the match fail
C19_WitnessPhi ==
    /\ arv.pc = "done" /\ arv.ret = "false"
    /\ \E i \in 1..Len(StepsOfCall) : IncompletePhi(StepsOfCall[i])

\* a select with three visited operands under FAdd
C19_WitnessSelect ==
    /\ arv.pc = "done" /\ arv.ret = "false"
    /\ \E i \in 1..Len(StepsOfCall) :
          isaSelect(g, StepsOfCall[i].Cur) /\ OverLimit(StepsOfCall[i])


---------------------------------------------------------------------------
(* C20: non-commutative instructions take the reduction value on the left  *)

\* the instructions the test of lines 321-324 applies to
OrderSensitive(G, v) ==
    /\ ~isCommutative(G, v)
    /\ ~isaPHI(G, v) /\ ~isaSelect(G, v) /\ ~isaCmp(G, v)

\* the step processes an order-sensitive instruction whose left operand is
\* not a visited node
RightOnly(s) ==
    /\ OrderSensitive(g, s.Cur)
    /\ Operand(g, s.Cur, 1) \notin s.Visited

\* C20: a match that processes a non-commutative instruction (no merge
\* node, select or compare) whose left operand is not an already-visited
\* reduction value is never reported as a reduction; every such instruction
\* of an accepted chain has a visited left operand.
C20_LeftOperandVisited ==
    (arv.pc = "done" /\ arv.ret = "true")
        => \A i \in 1..Len(StepsOfCall) : ~RightOnly(StepsOfCall[i])

\* x - sum: the match failed at a subtraction that has the reduction value
\* as its right operand only
C20_Witness ==
    /\ arv.pc = "done" /\ arv.ret = "false"
    /\ LET s == StepsOfCall[Len(StepsOfCall)]
       IN  /\ StepsOfCall /= <<>>
           /\ Op(g, s.Cur) \in {"Sub", "FSub"}
           /\ RightOnly(s)
           /\ Operand(g, s.Cur, 2) \in s.Visited

\* sum - x: an accepted chain with a subtraction
C20_WitnessLeft ==
    /\ arv.pc = "done" /\ arv.ret = "true"
    /\ \E i \in 1..Len(StepsOfCall) :
          LET s == StepsOfCall[i]
          IN  /\ Op(g, s.Cur) \in {"Sub", "FSub"}
              /\ Operand(g, s.Cur, 1) \in s.Visited


---------------------------------------------------------------------------
(* C21: merge-node users are queued before the other users                 *)

\* the values the traversal from P can visit: P and the in-loop
\* instructions that use one of them
RECURSIVE ChainValues(_, _)
ChainValues(G, S) ==
    LET more == { v \in 1..Len(G.ins) :
                    /\ LoopContains(G, v)
                    /\ \E i \in 1..Len(Operands(G, v)) :
                          Operand(G, v, i) \in S }
    IN  IF more \subseteq S THEN S ELSE ChainValues(G, S \cup more)

ReductionValues == ChainValues(g, {Phi})

\* the step takes a merge node other than the original one from the
\* worklist while one of its operands that is a reduction value is not
\* visited yet
PhiBeforeOperand(s) ==
    /\ isaPHI(g, s.Cur) /\ s.Cur /= Phi
    /\ \E i \in 1..Len(Operands(g, s.Cur)) :
          /\ Operand(g, s.Cur, i) \in ReductionValues
          /\ Operand(g, s.Cur, i) \notin s.Visited

\* the same loop with the users of every value listed in the opposite order
OtherOrder(G) == [G EXCEPT !.rev = ~@]

\* one iteration of the while loop appends the merge-node users it has
\* newly visited before the other users it has newly visited
C21_PhisQueuedFirst ==
    [][arv.pc = "loop" /\ arv'.pc = "loop" /\ arv.Worklist /= <<>> =>
         LET old == SubSeq(arv.Worklist, 1, Len(arv.Worklist) - 1)
             new == SubSeq(arv'.Worklist, Len(old) + 1, Len(arv'.Worklist))
         IN  /\ SubSeq(arv'.Worklist, 1, Len(old)) = old
             /\ \A i, j \in 1..Len(new) :
                   isaPHI(g, new[i]) /\ ~isaPHI(g, new[j]) => i < j]_vars

\* C21: a merge node other than the original one is taken from the worklist
\* only when every reduction value among its operands is visited, so no
\* match is rejected because of the order of processing: a match that the
\* matcher rejects is rejected with the users listed in the opposite order
\* too.
C21_OrderNeverRejects ==
    (arv.pc = "done" /\ arv.ret = "false")
        => /\ \A i \in 1..Len(StepsOfCall) : ~PhiBeforeOperand(StepsOfCall[i])
           /\ AddReductionVar(OtherOrder(g), Phi, Kind0, oracle).ret = "false"

\* the reduction with an arm of two operations and an arm of one is
\* rejected at its merge node, whose operand b waits on the worklist
C21_RejectedByOrder ==
    /\ arv.pc = "done" /\ arv.ret = "false"
    /\ g = DiamondGraph("Add", "uneven", FALSE) /\ Kind0 = "Add"
    /\ PhiBeforeOperand(StepsOfCall[Len(StepsOfCall)])

\* the same reduction is accepted with the users in the opposite order
C21_AcceptedInOtherOrder ==
    /\ arv.pc = "done" /\ arv.ret = "true"
    /\ g = DiamondGraph("Add", "uneven", TRUE) /\ Kind0 = "Add"


---------------------------------------------------------------------------
(* C22: the tracer of the redundant casts                                  *)

\* a value the walk can step over: an instruction of the loop that is a
\* binary operator with a loop-invariant operand
Steppable(G, v) ==
    IsInst(G, v) /\ LoopContains(G, v) /\ getDef(G, v) /= Null

\* the values the walk from v back towards P meets, P excluded; the last
\* one is the value that stops the walk, if one does
RECURSIVE BackPath(_, _, _, _)
BackPath(G, P, v, fuel) ==
    IF v = P \/ fuel = 0 THEN <<>>
    ELSE IF ~Steppable(G, v) THEN <<v>>
    ELSE <<v>> \o BackPath(G, P, getDef(G, v), fuel - 1)

PathOfCall == BackPath(g, Phi, getIncomingValueForBlock(g, Phi, g.latch),
                       Len(g.ins))

\* the position on the path of the first value that equals the recurrence,
\* 0 if there is none
FirstEqual(path, Equal) ==
    IF \E k \in 1..Len(path) : path[k] \in Equal
    THEN CHOOSE k \in 1..Len(path) :
            path[k] \in Equal /\ \A j \in 1..(k - 1) : path[j] \notin Equal
    ELSE 0

\* what the claim says of the trace: it succeeds iff the walk reaches the
\* merge node over steppable values only, has met a value that equals the
\* recurrence, and every value after the first such one has one use
ExpectedTrace(G, path, Equal) ==
    LET k == FirstEqual(path, Equal)
        ok == /\ \A i \in 1..Len(path) : Steppable(G, path[i])
              /\ k > 0
              /\ \A j \in (k + 1)..Len(path) : hasOneUse(G, path[j])
    IN  [Found |-> ok,
         Casts |-> IF ok THEN SubSeq(path, k, Len(path)) ELSE <<>>]

\* getCastsForInductionPHI has been called on a loop with a latch and has
\* returned
TracerReturned ==
    /\ ind.pc \in {"classify", "done"} /\ ind.failed = "none"
    /\ TypeOf(g, Phi).k \in {"int", "ptr"}
    /\ PSE.PhiScev = "Unknown" /\ PSE.Assume /\ PSE.AsAddRec
    /\ g.latch /= "none"

\* C22: the tracer succeeds exactly when the walk from the backedge value
\* reaches the merge node through in-loop binary operators with a
\* loop-invariant operand, meets a value equal to the recurrence, and every
\* value after the first such one has exactly one use; its result is then
\* the values from that first one on, in visiting order, without the merge
\* node.
C22_CastTrace ==
    TracerReturned =>
        LET e == ExpectedTrace(g, PathOfCall, PSE.EqualAR)
        IN  /\ ind.HasCasts = e.Found
            /\ ind.HasCasts =>
                  /\ ind.CastInsts = e.Casts
                  /\ \A i \in 1..Len(ind.CastInsts) : ind.CastInsts[i] /= Phi

\* a successful trace that records two instructions after one it has not
\* recorded
C22_Witness ==
    /\ TracerReturned /\ ind.HasCasts
    /\ Len(ind.CastInsts) = 2
    /\ Len(PathOfCall) = 3

\* a successful trace whose first recorded instruction has two uses
C22_WitnessFirstShared ==
    /\ TracerReturned /\ ind.HasCasts
    /\ ~hasOneUse(g, ind.CastInsts[1])

\* a trace that fails at a recorded value with two uses
C22_WitnessTwoUses ==
    /\ TracerReturned /\ ~ind.HasCasts
    /\ LET k == FirstEqual(PathOfCall, PSE.EqualAR)
       IN  /\ k > 0
           /\ \A i \in 1..Len(PathOfCall) : Steppable(g, PathOfCall[i])
           /\ \E j \in (k + 1)..Len(PathOfCall) : ~hasOneUse(g, PathOfCall[j])

\* the merge node is reached without equivalence
C22_WitnessNoEqual ==
    /\ TracerReturned /\ ~ind.HasCasts
    /\ PathOfCall /= <<>>
    /\ \A i \in 1..Len(PathOfCall) : Steppable(g, PathOfCall[i])
    /\ FirstEqual(PathOfCall, PSE.EqualAR) = 0

\* a second merge node stops the walk after equivalence was observed
C22_WitnessOtherPhi ==
    /\ TracerReturned /\ ~ind.HasCasts
    /\ PathOfCall /= <<>>
    /\ isaPHI(g, PathOfCall[Len(PathOfCall)])
    /\ PathOfCall[Len(PathOfCall)] \in PSE.EqualAR

\* an argument or an instruction in front of the loop stops the walk
C22_WitnessOutside ==
    /\ TracerReturned /\ ~ind.HasCasts
    /\ PathOfCall /= <<>>
    /\ LET v == PathOfCall[Len(PathOfCall)]
       IN  ~IsInst(g, v) \/ ~LoopContains(g, v)


---------------------------------------------------------------------------
(* C23: calls of isFirstOrderRecurrence that share one SinkAfter           *)

\* the value the merge node P takes over the latch edge is no in-loop
\* instruction, is a merge node, or is a key of SA
PreviousUnfit(G, P, SA) ==
    LET Previous == getIncomingValueForBlock(G, P, G.latch)
    IN  \/ ~IsInst(G, Previous) \/ ~LoopContains(G, Previous)
        \/ isaPHI(G, Previous)
        \/ Previous \in MapKeys(SA)

\* a user of the instruction taken from the worklist is not dominated by
\* Previous, so that it would have to be sunk, and is a key of SinkAfter
SinksAKey ==
    /\ fr.pc = "loop" /\ fr.WorkList /= <<>>
    /\ LET us == Users(g, fr.WorkList[Len(fr.WorkList)])
       IN  \E i \in 1..Len(us) :
              /\ us[i] \in MapKeys(SinkAfter)
              /\ ~dominates(g, fr.Previous, us[i])

\* the entries of SinkAfter are entries of SinkAfter', in the same places
EntriesKept ==
    /\ Len(SinkAfter') >= Len(SinkAfter)
    /\ \A i \in 1..Len(SinkAfter) : SinkAfter'[i] = SinkAfter[i]

\* C23: over the calls that share one SinkAfter, a call whose previous value
\* is no in-loop non-merge instruction or is a key of SinkAfter fails, a
\* call that would have to sink a key of SinkAfter fails, and no step
\* changes or removes an entry of SinkAfter or assigns a key a second time.
C23_SinkAfterKeysOnce ==
    [][/\ (fr.pc = "idle" /\ fr'.pc /= "idle" /\
           g.latch /= "none" /\ PreviousUnfit(g, Phi', SinkAfter))
          => (fr'.pc = "done" /\ fr'.ret = "false")
       /\ SinksAKey => (fr'.pc = "done" /\ fr'.ret = "false")
       /\ EntriesKept
       /\ \A i, j \in 1..Len(SinkAfter') :
             SinkAfter'[i][1] = SinkAfter'[j][1] => i = j
       /\ Len(SinkAfter') =
             Len(SinkAfter) +
             (IF fr.pc = "loop" /\ fr'.ret = "true"
              THEN Len(fr.InstrsToSink) ELSE 0)]_vars

\* a second call has failed at a user that the first call has made a key of
\* SinkAfter
C23_Witness ==
    /\ fr.pc = "done" /\ fr.ret = "false"
    /\ called /= {} /\ SinkAfter /= <<>>
    /\ IsInst(g, fr.Previous) /\ fr.Previous \notin MapKeys(SinkAfter)
    /\ \E v \in {Phi} \cup
                {fr.InstrsToSink[i] : i \in 1..Len(fr.InstrsToSink)} :
          \E i \in 1..Len(Users(g, v)) :
             /\ Users(g, v)[i] \in MapKeys(SinkAfter)
             /\ ~dominates(g, fr.Previous, Users(g, v)[i])
             /\ Users(g, v)[i] /= fr.Previous

\* a second call has failed because its previous value is a key of SinkAfter
C23_WitnessPrevious ==
    /\ fr.pc = "done" /\ fr.ret = "false"
    /\ called /= {}
    /\ fr.Previous \in MapKeys(SinkAfter)

\* a second call has added entries behind those of the first
C23_WitnessSecondCommit ==
    /\ fr.pc = "done" /\ fr.ret = "true"
    /\ called /= {}
    /\ fr.InstrsToSink /= <<>>
    /\ Len(SinkAfter) > Len(fr.InstrsToSink)


---------------------------------------------------------------------------
(* C24: the worklist traversals terminate                                  *)

SeqSet(s) == {s[i] : i \in 1..Len(s)}
Distinct(s) == \A i, j \in 1..Len(s) : s[i] = s[j] => i = j

\* what is left to do: the instructions in the worklist and those that can
\* still be pushed
ArvVariant(f) ==
    Len(f.Worklist) + Cardinality((1..Len(g.ins)) \ f.VisitedInsts)
ForVariant(f) ==
    Len(f.WorkList) + Cardinality((1..Len(g.ins)) \ SeqSet(f.InstrsToSink))

\* an iteration of the matcher's loop that goes on pushes only instructions
\* it has newly inserted into VisitedInsts, each once
ArvStepPushesNew ==
    (arv.pc = "loop" /\ arv.Worklist /= <<>> /\ arv'.pc = "loop") =>
        LET n == Len(arv.Worklist) - 1
            new == SubSeq(arv'.Worklist, n + 1, Len(arv'.Worklist))
        IN  /\ SubSeq(arv'.Worklist, 1, n) = SubSeq(arv.Worklist, 1, n)
            /\ Distinct(new)
            /\ SeqSet(new) \subseteq arv'.VisitedInsts \ arv.VisitedInsts
            /\ arv.VisitedInsts \subseteq arv'.VisitedInsts
            /\ ArvVariant(arv') = ArvVariant(arv) - 1

\* the same for the sinker and InstrsToSink
ForStepPushesNew ==
    (fr.pc = "loop" /\ fr.WorkList /= <<>> /\ fr'.pc = "loop") =>
        LET n == Len(fr.WorkList) - 1
            new == SubSeq(fr'.WorkList, n + 1, Len(fr'.WorkList))
        IN  /\ SubSeq(fr'.WorkList, 1, n) = SubSeq(fr.WorkList, 1, n)
            /\ Distinct(new)
            /\ SeqSet(new) \subseteq
                  SeqSet(fr'.InstrsToSink) \ SeqSet(fr.InstrsToSink)
            /\ SeqSet(fr.InstrsToSink) \subseteq SeqSet(fr'.InstrsToSink)
            /\ ForVariant(fr') = ForVariant(fr) - 1

\* no instruction waits twice in a worklist, and what is left to do is
\* never more than the instructions of the loop
WorklistsBounded ==
    /\ arv'.pc = "loop" =>
          /\ Distinct(arv'.Worklist)
          /\ SeqSet(arv'.Worklist) \subseteq arv'.VisitedInsts
          /\ ArvVariant(arv') <= Len(g.ins)
    /\ fr'.pc = "loop" =>
          /\ Distinct(fr'.WorkList)
          /\ SeqSet(fr'.WorkList) \subseteq {Phi'} \cup SeqSet(fr'.InstrsToSink)
          /\ ForVariant(fr') <= Len(g.ins) + 1

\* every call returns: the matcher's, and the sinker's for each merge node
\* of the header
AllReturned ==
    \/ arv.pc = "done"
    \/ fr.pc = "idle" /\ called = HeaderPhis(g)

\* C24: both traversals terminate: an instruction is pushed only when it is
\* newly inserted into the visited set (the matcher) or the tentative sink
\* set (the sinker), so no instruction is pushed twice, each iteration
\* leaves one instruction less to do out of at most the instructions of the
\* loop, and every call returns.
C24_TraversalsTerminate ==
    /\ [][ArvStepPushesNew /\ ForStepPushesNew /\ WorklistsBounded]_vars
    /\ <>AllReturned

\* the matcher has returned after an iteration that pushed two instructions
\* and met a visited one
C24_Witness ==
    /\ arv.pc = "done"
    /\ Len(StepsOfCall) >= 4
    /\ \E i \in 1..Len(StepsOfCall) :
          \E k \in 1..Len(Users(g, StepsOfCall[i].Cur)) :
             Users(g, StepsOfCall[i].Cur)[k] \in StepsOfCall[i].Visited

\* the sinker has returned from its second call with an instruction sunk
C24_WitnessSinker ==
    /\ fr.pc = "done" /\ fr.ret = "true"
    /\ called /= {}
    /\ fr.InstrsToSink /= <<>>


---------------------------------------------------------------------------
(* C25: floating-point min/max needs the function's no-NaNs and            *)
(* no-signed-zeros                                                         *)

\* the function-level defaults handed to the matcher have both flags
FuncAllowsFPMinMax == {"nnan", "nsz"} \subseteq g.fnFMF

\* the compares and selects of the loop
CmpsAndSelects ==
    {v \in 1..Len(g.ins) : isaCmp(g, v) \/ isaSelect(g, v)}

\* C25: unless the function-level defaults have both no-NaNs and
\* no-signed-zeros, no compare or select is classified as part of a
\* recurrence under FMax or FMin, a call of the matcher for FMax or FMin
\* returns no match, and neither the matcher nor the prober reports the
\* kind FMax or FMin, whatever flags the instructions carry.
C25_FPMinMaxNeedsFunctionFlags ==
    ~FuncAllowsFPMinMax =>
        /\ \A v \in CmpsAndSelects, K \in {"FMax", "FMin"} :
              ~isRecurrenceInstr(g, v, K, InstDescB(FALSE, Null, Null),
                                 g.fnFMF).IsRecurrence
        /\ (arv.pc = "done" /\ isFPMinMaxRecurrenceKind(Kind0))
              => arv.ret = "false"
        /\ (arv.pc = "done" /\ arv.ret = "true")
              => ~isFPMinMaxRecurrenceKind(arv.Kind)
        /\ ~isFPMinMaxRecurrenceKind(RedDes.Kind)
        /\ phiRet = "true" => ~isFPMinMaxRecurrenceKind(RedDes.Kind)

\* the function with the flags set
WithFunctionFlags(G) == [G EXCEPT !.fnFMF = {"nnan", "nsz"}]

\* the call for FMax has failed on a compare and select that carry both
\* flags in a function that has none; with the flags on the function the
\* same loop is an FMax reduction
C25_Witness ==
    /\ arv.pc = "done" /\ arv.ret = "false" /\ Kind0 = "FMax"
    /\ g.fnFMF = {}
    /\ \A v \in CmpsAndSelects : {"nnan", "nsz"} \subseteq g.ins[v].fmf
    /\ CmpsAndSelects /= {}
    /\ LET f == AddReductionVar(WithFunctionFlags(g), Phi, "FMax", oracle)
       IN  f.ret = "true" /\ f.Kind = "FMax"

\* the prober has tried all kinds and failed on such a loop
C25_WitnessProbe ==
    /\ phiRet = "false" /\ kindIdx = Len(KindOrder)
    /\ "nnan" \in g.fnFMF /\ "nsz" \notin g.fnFMF
    /\ AddReductionVar(WithFunctionFlags(g), Phi, "FMin", oracle).ret = "true"

\* with the flags on the function the prober reports FMin
C25_WitnessReported ==
    /\ phiRet = "true" /\ RedDes.Kind = "FMin" /\ FuncAllowsFPMinMax


---------------------------------------------------------------------------
(* C26: the output descriptor is written only on success                   *)

\* which function the caller has called
CalledMatcher == arv.pc /= "off" /\ kindIdx = 0
CalledProber == arv.pc /= "off" /\ kindIdx >= 1
CalledClassifier == ind.pc /= "off"

\* the descriptor the caller handed in
HandedIn == first.des

\* C26: when AddReductionVar, isReductionPHI, isFPInductionPHI or
\* isInductionPHI returns no-match, the descriptor the caller passed in is
\* as it was before the call, also after isReductionPHI has tried and
\* failed several kinds; the descriptor differs from what was handed in
\* only once the call has returned a match.
C26_DescriptorWrittenOnSuccess ==
    /\ (CalledMatcher /\ arv.pc = "done" /\ arv.ret = "false")
          => RedDes = HandedIn
    /\ (CalledProber /\ arv.ret /= "true") => RedDes = HandedIn
    /\ (CalledProber /\ phiRet = "false") => RedDes = HandedIn
    /\ (CalledMatcher \/ CalledProber) /\ RedDes /= HandedIn
          => arv.pc = "done" /\ arv.ret = "true"
    /\ (CalledClassifier /\ ind.pc = "done" /\ ind.ret = "false")
          => D = HandedIn
    /\ (CalledClassifier /\ D /= HandedIn)
          => ind.pc = "done" /\ ind.ret = "true"

\* the prober has failed all kinds with a descriptor that held an earlier
\* result
C26_Witness ==
    /\ CalledProber /\ phiRet = "false" /\ kindIdx = Len(KindOrder)
    /\ HandedIn = StaleRedDes

\* the matcher has returned no-match after its traversal, with such a
\* descriptor
C26_WitnessMatcher ==
    /\ CalledMatcher /\ arv.pc = "done" /\ arv.ret = "false"
    /\ arv.VisitedInsts /= {}
    /\ HandedIn = StaleRedDes

\* the classifier has rejected a floating-point merge node
C26_WitnessFP ==
    /\ CalledClassifier /\ ind.pc = "done" /\ ind.ret = "false"
    /\ TypeOf(g, Phi).k = "fp"
    /\ HandedIn = StaleD

\* the classifier has rejected an integer merge node after the tracer ran
C26_WitnessInt ==
    /\ CalledClassifier /\ ind.pc = "done" /\ ind.ret = "false"
    /\ TypeOf(g, Phi).k = "int" /\ PSE.PhiScev = "Unknown" /\ PSE.AsAddRec
    /\ HandedIn = StaleD

\* a match has replaced the descriptor handed in
C26_WitnessWritten ==
    /\ CalledProber /\ phiRet = "true"
    /\ HandedIn = StaleRedDes /\ RedDes /= StaleRedDes

====
